---- MODULE Spec2Model ----
(***************************************************************************)
(* Query-routing agent: AgentController (src/agent/controller.py) and the  *)
(* tool boundaries it dispatches to (src/agent/tools/*.py).                *)
(*                                                                         *)
(* Texts whose characters the code inspects (the query, the classifier's   *)
(* completion, routing_decision) are sequences of one-character strings.   *)
(* Texts the code only passes along (response, tool_used, error) are       *)
(* strings; the emoji that prefix the tool labels in the source are left   *)
(* out of them.                                                            *)
(***************************************************************************)
EXTENDS Integers, Sequences, FiniteSets, TLC

\* ------------------------------------------------------------------ bounds
\* Longest query of the fallback check, in words of Words.
MaxWords == 2
\* Number of process_query calls made on the controller.
NumReqs == 1
\* Calendar days the clock runs through.
MaxDay == 2

\* Calls of process_query that run at the same time.
NumCallers == 2
\* Rebuilds of the retrieval index.
MaxBuilds == 3
\* Largest digit operand of the arithmetic inputs (the tens up to ten times
\* it are operands too).
MaxOperand == 4
\* Calls made to the tools built without the controller.
MaxCalls == 3
\* Items of an evaluation set, and the categories they are labelled with.
MaxItems == 3
NumCategories == 2
\* Chunks a similarity search returns at most.
MaxDocs == 2

\* -------------------------------------------------------------- characters
UpperLetters ==
    <<"A", "B", "C", "D", "E", "F", "G", "H", "I", "J", "K", "L", "M",
      "N", "O", "P", "Q", "R", "S", "T", "U", "V", "W", "X", "Y", "Z">>

LowerLetters ==
    <<"a", "b", "c", "d", "e", "f", "g", "h", "i", "j", "k", "l", "m",
      "n", "o", "p", "q", "r", "s", "t", "u", "v", "w", "x", "y", "z">>

\* U+017F LATIN SMALL LETTER LONG S: a lower-case letter whose upper case is "S".
long_s == "long_s"

\* str.lower() on one character: A-Z map to a-z; every other character of the
\* model (digits, punctuation, lower-case letters, long s) is left alone.
LowerChar(c) ==
    IF \E i \in 1..26 : UpperLetters[i] = c
    THEN LowerLetters[CHOOSE i \in 1..26 : UpperLetters[i] = c]
    ELSE c

\* str.upper() on one character: a-z map to A-Z and long s maps to "S".
UpperChar(c) ==
    IF c = long_s THEN "S"
    ELSE IF \E i \in 1..26 : LowerLetters[i] = c
         THEN UpperLetters[CHOOSE i \in 1..26 : LowerLetters[i] = c]
         ELSE c

Lower(s) == [i \in 1..Len(s) |-> LowerChar(s[i])]

Upper(s) == [i \in 1..Len(s) |-> UpperChar(s[i])]

\* Python's `sub in s` on strings.
Contains(s, sub) ==
    \E i \in 0..(Len(s) - Len(sub)) : SubSeq(s, i + 1, i + Len(sub)) = sub

Whitespace == {" ", "\n", "\t"}

\* str.strip(): drop leading and trailing whitespace.
Strip(s) ==
    LET keep == {i \in 1..Len(s) : s[i] \notin Whitespace}
    IN  IF keep = {} THEN <<>>
        ELSE SubSeq(s, CHOOSE i \in keep : \A j \in keep : i <= j,
                       CHOOSE i \in keep : \A j \in keep : i >= j)

\* ------------------------------------------------------------------ labels
web_search ==
    <<"w", "e", "b", "_", "s", "e", "a", "r", "c", "h">>

calculator ==
    <<"c", "a", "l", "c", "u", "l", "a", "t", "o", "r">>

math_solver ==
    <<"m", "a", "t", "h", "_", "s", "o", "l", "v", "e", "r">>

document_qa ==
    <<"d", "o", "c", "u", "m", "e", "n", "t", "_", "q", "a">>

general_chat ==
    <<"g", "e", "n", "e", "r", "a", "l", "_", "c", "h", "a", "t">>

valid_routes == {web_search, calculator, math_solver, document_qa, general_chat}

\* -------------------------------------------------- fallback routing lists
time_indicators ==
    { <<"t", "o", "d", "a", "y">>,
      <<"c", "u", "r", "r", "e", "n", "t">>,
      <<"l", "a", "t", "e", "s", "t">>,
      <<"r", "e", "c", "e", "n", "t">>,
      <<"n", "o", "w">>,
      <<"2", "0", "2", "4">>,
      <<"2", "0", "2", "5">>,
      <<"n", "e", "w", "s">> }

math_operators == { <<"+">>, <<"-">>, <<"*">>, <<"/">>, <<"=">>, <<"%">> }

complex_math ==
    { <<"s", "o", "l", "v", "e">>,
      <<"e", "q", "u", "a", "t", "i", "o", "n">>,
      <<"d", "e", "r", "i", "v", "a", "t", "i", "v", "e">>,
      <<"i", "n", "t", "e", "g", "r", "a", "l">>,
      <<"x", "=">>,
      <<"f", "i", "n", "d", " ", "x">> }

doc_indicators ==
    { <<"d", "o", "c", "u", "m", "e", "n", "t">>,
      <<"f", "i", "l", "e">>,
      <<"u", "p", "l", "o", "a", "d", "e", "d">>,
      <<"m", "y", " ", "r", "e", "s", "u", "m", "e">>,
      <<"t", "h", "e", " ", "r", "e", "p", "o", "r", "t">>,
      <<"a", "c", "c", "o", "r", "d", "i", "n", "g", " ", "t", "o">> }

\* any(x in text for x in items)
AnyIn(items, text) == \E x \in items : Contains(text, x)

\* A variant of _fallback_routing that tests the arithmetic operators first.
fallback_routing_ops_first(query) ==
    LET query_lower == Lower(query)
    IN  IF AnyIn(math_operators, query)
        THEN IF AnyIn(complex_math, query_lower) THEN math_solver ELSE calculator
        ELSE IF AnyIn(time_indicators, query_lower) THEN web_search
        ELSE IF AnyIn(doc_indicators, query_lower) THEN document_qa
        ELSE general_chat

\* _fallback_routing: the indicator lists are matched against query.lower(),
\* the operator characters against the query as given.
fallback_routing(query) ==
    LET query_lower == Lower(query)
    IN  IF AnyIn(time_indicators, query_lower) THEN web_search
        ELSE IF AnyIn(math_operators, query)
             THEN IF AnyIn(complex_math, query_lower) THEN math_solver
                  ELSE calculator
        ELSE IF AnyIn(doc_indicators, query_lower) THEN document_qa
        ELSE general_chat

\* ---------------------------------------------------------- query inputs
\* Words the bounded queries are built from: one or more per signal of the
\* heuristic, in several casings, with near misses ("know" holds "now",
\* "1999" is a year outside the list) and a non-ASCII letter.
Words ==
    << <<"T", "o", "d", "a", "y">>,
       <<"k", "n", "o", "w">>,
       <<"2", "0", "2", "4">>,
       <<"1", "9", "9", "9">>,
       <<"2", "+", "2">>,
       <<"5", "0", "%">>,
       <<"S", "o", "l", "v", "e">>,
       <<"x", "=", "5">>,
       <<"F", "I", "L", "E">>,
       <<"h", "e", "l", "l", "o">>,
       <<"d", "e", "r", "i", "v", "a", "t", "i", "v", "e">>,
       <<"n", "e", "w", long_s>> >>

\* " ".join(ws)
RECURSIVE Join(_)
Join(ws) ==
    IF ws = <<>> THEN <<>>
    ELSE IF Len(ws) = 1 THEN ws[1]
    ELSE ws[1] \o <<" ">> \o Join(Tail(ws))

\* Every query of at most MaxWords words, the empty query included.
Queries ==
    { Join([i \in 1..Len(p) |-> Words[p[i]]]) :
        p \in UNION { [1..n -> 1..Len(Words)] : n \in 0..MaxWords } }

\* Queries sent through the dispatcher: the empty query and one query or more
\* for each label the fallback can give.
Q_empty == <<>>

Q_sum_today == <<"2", "+", "2", " ", "T", "o", "d", "a", "y">>

Q_div_zero == <<"1", "0", "/", "0">>

Q_sum == <<"2", "+", "2">>

Q_solve == <<"S", "o", "l", "v", "e", " ", "x", "=", "5">>

Q_file == <<"F", "I", "L", "E">>

DispatchQueries == {Q_empty, Q_sum_today, Q_div_zero, Q_sum, Q_solve, Q_file}

\* ------------------------------------------------- calls and their outcome
\* What a call gives back: a returned text, or a raised exception with str(e).
Ret(text) == [raised |-> FALSE, val |-> text]

Raise(msg) == [raised |-> TRUE, val |-> msg]

\* str(e) of the exceptions that reach the controller; an exception built
\* without a message has the empty str(e).
ExcMessages == {"Connection error.", ""}

\* ------------------------------------------------------------ WebSearchTool
\* What the Serper request does: answer with results, answer with none, time
\* out, fail as a RequestException, or fail otherwise.
WebOutcomes ==
    {[kind |-> "ok", msg |-> ""], [kind |-> "no_results", msg |-> ""],
     [kind |-> "timeout", msg |-> ""],
     [kind |-> "request_error", msg |-> "Connection error."],
     [kind |-> "unexpected_error", msg |-> "Expecting value"]}

\* WebSearchTool.__init__: api_key is what the environment has under
\* SERPER_API_KEY (a warning is logged when it has nothing); it never raises.
WebSearchTool_init(serper_api_key) == [raised |-> FALSE, credential |-> serper_api_key]

\* A search that goes to the request without looking at the key: without
\* one the request is refused.
search_unguarded(api_key, outcome) ==
    IF ~api_key THEN Ret("Web search failed: 403 Client Error")
    ELSE CASE outcome.kind = "timeout" ->
                Ret("Web search timed out. Please try again.")
           [] outcome.kind = "request_error" ->
                Ret("Web search failed: " \o outcome.msg)
           [] outcome.kind = "unexpected_error" ->
                Ret("Unexpected error during web search: " \o outcome.msg)
           [] outcome.kind = "no_results" ->
                Ret("No search results found for your query.")
           [] OTHER -> Ret("Web Search Results")

\* WebSearchTool.search: every failure comes back as text.
search(api_key, outcome) ==
    IF ~api_key
    THEN Ret("Web search is not available (API key not configured)")
    ELSE CASE outcome.kind = "timeout" ->
                Ret("Web search timed out. Please try again.")
           [] outcome.kind = "request_error" ->
                Ret("Web search failed: " \o outcome.msg)
           [] outcome.kind = "unexpected_error" ->
                Ret("Unexpected error during web search: " \o outcome.msg)
           [] outcome.kind = "no_results" ->
                Ret("No search results found for your query.")
           [] OTHER -> Ret("Web Search Results")

\* A search that repeats the request once after a timeout.
search_attempts_retrying(api_key, outcome) ==
    IF ~api_key THEN 0 ELSE IF outcome.kind = "timeout" THEN 2 ELSE 1

\* requests.post calls search makes: none without the key, otherwise one.
search_attempts(api_key, outcome) == IF api_key THEN 1 ELSE 0

\* ----------------------------------------------------------- CalculatorTool
Digits == {"0", "1", "2", "3", "4", "5", "6", "7", "8", "9"}

Letters == {LowerLetters[i] : i \in 1..26} \cup {UpperLetters[i] : i \in 1..26}

\* F applied to a value that is computed once, as a statement sequence does
\* with the value of a local variable.
Then(value, F(_)) == CHOOSE result \in {F(v) : v \in {value}} : TRUE

\* A text as one string (for messages).
RECURSIVE Cat(_)
Cat(s) ==
    IF s = <<>> THEN ""
    ELSE IF Len(s) = 1 THEN s[1]
    ELSE Cat(SubSeq(s, 1, Len(s) \div 2)) \o Cat(SubSeq(s, Len(s) \div 2 + 1, Len(s)))

DigitSeq == <<"0", "1", "2", "3", "4", "5", "6", "7", "8", "9">>

DigitVal(c) == (CHOOSE i \in 1..10 : DigitSeq[i] = c) - 1

\* int("123") and str(123).
RECURSIVE NatOfDigits(_)
NatOfDigits(s) ==
    IF s = <<>> THEN 0
    ELSE 10 * NatOfDigits(SubSeq(s, 1, Len(s) - 1)) + DigitVal(s[Len(s)])

RECURSIVE DigitsOfNat(_)
DigitsOfNat(n) ==
    IF n < 10 THEN <<DigitSeq[n + 1]>>
    ELSE Append(DigitsOfNat(n \div 10), DigitSeq[(n % 10) + 1])

RECURSIVE Power10(_)
Power10(k) == IF k = 0 THEN 1 ELSE 10 * Power10(k - 1)

\* ---- the values _eval_node computes with
\* Numbers are kept exact, as fractions n/d in lowest terms with d > 0 (the
\* floats of the expressions modelled are small fractions); a string constant
\* and a function object named without a call are values too; "approx" is a
\* float the model does not compute (pi, e, sin, log, a root of a non-square).
Abs(n) == IF n < 0 THEN -n ELSE n

RECURSIVE Gcd(_, _)
Gcd(a, b) == IF b = 0 THEN a ELSE Gcd(b, a % b)

\* A number n/d in lowest terms with d > 0; fl says it is a float.
Number(n, d, fl) ==
    LET g == Gcd(Abs(n), Abs(d))
        sign == IF d < 0 THEN -1 ELSE 1
    IN  [kind |-> "num", n |-> sign * (n \div g), d |-> sign * (d \div g),
         fl |-> fl, text |-> <<>>]

Num(n) == Number(n, 1, FALSE)

Float(n, d) == Number(n, d, TRUE)

StrVal(text) == [kind |-> "str", n |-> 0, d |-> 1, fl |-> FALSE, text |-> text]

FuncVal(name) == [kind |-> "func", n |-> 0, d |-> 1, fl |-> FALSE, text |-> name]

\* A float the model does not compute; text is its rendering where known.
Approx(text) == [kind |-> "approx", n |-> 0, d |-> 1, fl |-> TRUE, text |-> text]

\* floor(n/d) for d > 0 (\div is floored in TLA+).
Floor(v) == v.n \div v.d

\* Python's round(x): to the nearest integer, ties to the even one.
RoundHalfEven(v) ==
    LET f == Floor(v)
        twice == 2 * (v.n - f * v.d)
    IN  IF twice < v.d THEN f
        ELSE IF twice > v.d THEN f + 1
        ELSE IF f % 2 = 0 THEN f ELSE f + 1

IsSquare(n) == n >= 0 /\ \E k \in 0..n : k * k = n

SqrtNat(n) == CHOOSE k \in 0..n : k * k = n

\* ---- _format_result
\* str(int(result)) for a number equal to an integer.
IntText(n) == IF n < 0 THEN <<"-">> \o DigitsOfNat(-n) ELSE DigitsOfNat(n)

RECURSIVE RStripZeros(_)
RStripZeros(s) ==
    IF s /= <<>> /\ s[Len(s)] = "0" THEN RStripZeros(SubSeq(s, 1, Len(s) - 1))
    ELSE s

PadZeros(s, width) == [i \in 1..(width - Len(s)) |-> "0"] \o s

\* f"{result:.6f}".rstrip('0').rstrip('.') for a number that is no integer and
\* lies between 0.001 and 1e6 in size.
FixedText(v) ==
    LET a == Abs(v.n)
        whole == a \div v.d
        scaled == (a % v.d) * 1000000
        q == scaled \div v.d
        twice == 2 * (scaled % v.d)
        micro == IF twice < v.d THEN q
                 ELSE IF twice > v.d THEN q + 1
                 ELSE IF q % 2 = 0 THEN q ELSE q + 1
        carry == micro \div 1000000
        decimals == RStripZeros(PadZeros(DigitsOfNat(micro % 1000000), 6))
        digits == DigitsOfNat(whole + carry)
                    \o (IF decimals = <<>> THEN <<>> ELSE <<".">> \o decimals)
    IN  IF v.n < 0 THEN <<"-">> \o digits ELSE digits

\* _format_result: the integer rendering for a number equal to an integer,
\* the scientific one for a very small or very large number, otherwise six
\* decimals with the trailing zeros stripped; int(result) raises for a string
\* and for a function object, and the method's own except turns that into the
\* "formatting failed" text, which calculate returns as its answer.
format_result(v) ==
    LET shown(kind, text) == [kind |-> kind, text |-> text, hint |-> "none"]
    IN  IF v.kind = "approx" THEN shown("result", Cat(v.text))
        ELSE IF v.kind = "str" THEN shown("formatting_failed", Cat(v.text))
        ELSE IF v.kind = "func"
        THEN shown("formatting_failed", "<built-in function " \o Cat(v.text) \o ">")
        ELSE IF v.d = 1 THEN shown("result", Cat(IntText(v.n)))
        ELSE IF Abs(v.n) * 1000 < v.d \/ Abs(v.n) > 1000000 * v.d
        THEN shown("result", "scientific")
        ELSE shown("result", Cat(FixedText(v)))

\* ---- ast.parse(expression, mode='eval'), on the part of Python's expression
\* syntax that the modelled texts use: numbers, names, string constants, the
\* binary and unary operators, comparison, calls with positional and keyword
\* arguments, attribute access, subscripts and parentheses.
NameStart == Letters \cup {"_"}

NameChars == NameStart \cup Digits

OpChars == {"+", "-", "*", "/", "%", "(", ")", "[", "]", ",", ".", "<", ">", "=", ":"}

Tok(t, v) == [t |-> t, v |-> v]

\* Length of the longest run of characters of `set` that s has from i on.
RECURSIVE RunLen(_, _, _)
RunLen(s, i, set) ==
    IF i <= Len(s) /\ s[i] \in set THEN 1 + RunLen(s, i + 1, set) ELSE 0

\* Length of the number literal at i: digits, and a "." with its digits.
NumberLen(s, i) ==
    LET whole == RunLen(s, i, Digits)
    IN  IF i + whole <= Len(s) /\ s[i + whole] = "."
           /\ RunLen(s, i + whole + 1, Digits) > 0
        THEN whole + 1 + RunLen(s, i + whole + 1, Digits)
        ELSE whole

\* A decimal integer literal may not start with 0 unless it is all zeros.
BadLeadingZero(lit) ==
    /\ Len(lit) > 1
    /\ lit[1] = "0"
    /\ lit[2] /= "."
    /\ \E i \in 1..Len(lit) : lit[i] /= "0"

NoTokens == [ok |-> FALSE, toks |-> <<>>]

Push(tok, rest) ==
    IF rest.ok THEN [ok |-> TRUE, toks |-> <<tok>> \o rest.toks] ELSE NoTokens

\* The tokens of s from position i on; ok is FALSE on a character or literal
\* the tokenizer rejects (a SyntaxError).
RECURSIVE Tokens(_, _)
Tokens(s, i) ==
    IF i > Len(s) THEN [ok |-> TRUE, toks |-> <<>>]
    ELSE IF s[i] \in Digits
    THEN LET lit == SubSeq(s, i, i + NumberLen(s, i) - 1)
             next == i + NumberLen(s, i)
         IN  IF BadLeadingZero(lit) THEN NoTokens
             ELSE IF next <= Len(s) /\ s[next] \in NameStart THEN NoTokens
             ELSE Then(Tokens(s, next), LAMBDA rest : Push(Tok("num", lit), rest))
    ELSE IF s[i] \in NameStart
    THEN Then(Tokens(s, i + RunLen(s, i, NameChars)),
              LAMBDA rest :
                  Push(Tok("name", SubSeq(s, i, i + RunLen(s, i, NameChars) - 1)), rest))
    ELSE IF s[i] = "'"
    THEN LET close == i + 1 + RunLen(s, i + 1, (NameChars \cup OpChars \cup {" "}))
         IN  IF close <= Len(s) /\ s[close] = "'"
             THEN Then(Tokens(s, close + 1),
                       LAMBDA rest : Push(Tok("str", SubSeq(s, i + 1, close - 1)), rest))
             ELSE NoTokens
    ELSE IF s[i] \in {"*", "/"} /\ i < Len(s) /\ s[i + 1] = s[i]
    THEN Then(Tokens(s, i + 2), LAMBDA rest : Push(Tok("op", <<s[i], s[i]>>), rest))
    ELSE IF s[i] \in OpChars
    THEN Then(Tokens(s, i + 1), LAMBDA rest : Push(Tok("op", <<s[i]>>), rest))
    ELSE NoTokens

\* The syntax tree: nodes of ast, as records with a `type`.
Constant(kind, text) == [type |-> "Constant", kind |-> kind, text |-> text]

Name(id) == [type |-> "Name", id |-> id]

BinOp(op, left, right) == [type |-> "BinOp", op |-> op, left |-> left, right |-> right]

UnaryOp(op, operand) == [type |-> "UnaryOp", op |-> op, operand |-> operand]

CallNode(func, args, keywords) ==
    [type |-> "Call", func |-> func, args |-> args, keywords |-> keywords]

Attribute(value, attr) == [type |-> "Attribute", value |-> value, attr |-> attr]

Subscript(value, slice) == [type |-> "Subscript", value |-> value, slice |-> slice]

Compare(left, right) == [type |-> "Compare", left |-> left, right |-> right]

Parsed(node, rest) == [ok |-> TRUE, node |-> node, rest |-> rest]

NotParsed == [ok |-> FALSE, node |-> <<>>, rest |-> <<>>]

IsOp(toks, ops) == toks /= <<>> /\ toks[1].t = "op" /\ toks[1].v \in ops

\* What follows a parsed piece `e`: the closing parenthesis, the closing
\* bracket of a subscript, the node built from an operator and its operands.
CloseParen(e) ==
    IF e.ok /\ IsOp(e.rest, {<<")">>}) THEN Parsed(e.node, Tail(e.rest)) ELSE NotParsed

BinaryNode(op, left, r) ==
    IF r.ok THEN Parsed(BinOp(op, left, r.node), r.rest) ELSE NotParsed

UnaryNode(op, o) ==
    IF o.ok THEN Parsed(UnaryOp(op, o.node), o.rest) ELSE NotParsed

CompareNode(left, r) ==
    IF r.ok THEN Parsed(Compare(left, r.node), r.rest) ELSE NotParsed

ArgsParsed(args, keywords, rest) ==
    [ok |-> TRUE, args |-> args, keywords |-> keywords, rest |-> rest]

ArgsNotParsed == [ok |-> FALSE, args |-> <<>>, keywords |-> <<>>, rest |-> <<>>]

\* name "=" at the head of an argument: a keyword argument.
IsKeyword(toks) ==
    Len(toks) >= 2 /\ toks[1].t = "name" /\ IsOp(Tail(toks), {<<"=">>})

RECURSIVE ParseExpr(_)
RECURSIVE ParseArith(_)
RECURSIVE ParseArithRest(_, _)
RECURSIVE ArithRest(_)
RECURSIVE ParseTerm(_)
RECURSIVE ParseTermRest(_, _)
RECURSIVE TermRest(_)
RECURSIVE ParseFactor(_)
RECURSIVE ParsePower(_)
RECURSIVE PowerOf(_)
RECURSIVE ParseTrailers(_, _)
RECURSIVE Trailers(_)
RECURSIVE CallTrailer(_, _)
RECURSIVE IndexTrailer(_, _)
RECURSIVE ParseArgs(_, _, _)
RECURSIVE NextArg(_, _, _, _)
RECURSIVE ParseAtom(_)
RECURSIVE CompareOf(_)

\* atom: a number, a string, a name, a parenthesised expression.
ParseAtom(toks) ==
    IF toks = <<>> THEN NotParsed
    ELSE IF toks[1].t = "num" THEN Parsed(Constant("num", toks[1].v), Tail(toks))
    ELSE IF toks[1].t = "str" THEN Parsed(Constant("str", toks[1].v), Tail(toks))
    ELSE IF toks[1].t = "name" THEN Parsed(Name(toks[1].v), Tail(toks))
    ELSE IF IsOp(toks, {<<"(">>}) THEN Then(ParseExpr(Tail(toks)), CloseParen)
    ELSE NotParsed

\* The arguments of a call, after its "(": positional ones, then keyword
\* ones (a positional argument after a keyword one is a SyntaxError).
ParseArgs(toks, args, keywords) ==
    IF IsOp(toks, {<<")">>}) THEN ArgsParsed(args, keywords, Tail(toks))
    ELSE IF ~IsKeyword(toks) /\ keywords /= <<>> THEN ArgsNotParsed
    ELSE Then(ParseExpr(IF IsKeyword(toks) THEN SubSeq(toks, 3, Len(toks)) ELSE toks),
              LAMBDA e : NextArg(e, toks, args, keywords))

\* The argument `e` that starts at toks is added to the positional or to the
\* keyword arguments; a "," or the ")" follows.
NextArg(e, toks, args, keywords) ==
    LET args2 == IF IsKeyword(toks) THEN args ELSE Append(args, e.node)
        keywords2 == IF IsKeyword(toks)
                     THEN Append(keywords, [arg |-> toks[1].v, value |-> e.node])
                     ELSE keywords
    IN  IF ~e.ok THEN ArgsNotParsed
        ELSE IF IsOp(e.rest, {<<",">>}) THEN ParseArgs(Tail(e.rest), args2, keywords2)
        ELSE IF IsOp(e.rest, {<<")">>}) THEN ArgsParsed(args2, keywords2, Tail(e.rest))
        ELSE ArgsNotParsed

\* primary: an atom followed by calls, attribute accesses and subscripts.
CallTrailer(node, a) ==
    IF a.ok THEN ParseTrailers(CallNode(node, a.args, a.keywords), a.rest)
    ELSE NotParsed

IndexTrailer(node, e) ==
    IF e.ok /\ IsOp(e.rest, {<<"]">>})
    THEN ParseTrailers(Subscript(node, e.node), Tail(e.rest))
    ELSE NotParsed

ParseTrailers(node, toks) ==
    IF IsOp(toks, {<<"(">>})
    THEN Then(ParseArgs(Tail(toks), <<>>, <<>>), LAMBDA a : CallTrailer(node, a))
    ELSE IF IsOp(toks, {<<".">>})
    THEN IF Len(toks) >= 2 /\ toks[2].t = "name"
         THEN ParseTrailers(Attribute(node, toks[2].v), SubSeq(toks, 3, Len(toks)))
         ELSE NotParsed
    ELSE IF IsOp(toks, {<<"[">>})
    THEN Then(ParseExpr(Tail(toks)), LAMBDA e : IndexTrailer(node, e))
    ELSE Parsed(node, toks)

Trailers(a) == IF a.ok THEN ParseTrailers(a.node, a.rest) ELSE NotParsed

\* power: primary ["**" factor], binding tighter than a unary sign on its
\* left and taking a signed factor on its right.
PowerOf(b) ==
    IF b.ok /\ IsOp(b.rest, {<<"*", "*">>})
    THEN Then(ParseFactor(Tail(b.rest)), LAMBDA e : BinaryNode(<<"*", "*">>, b.node, e))
    ELSE b

ParsePower(toks) == Then(Then(ParseAtom(toks), Trailers), PowerOf)

\* factor: ("+" | "-") factor | power.
ParseFactor(toks) ==
    IF IsOp(toks, {<<"+">>, <<"-">>})
    THEN Then(ParseFactor(Tail(toks)), LAMBDA o : UnaryNode(toks[1].v, o))
    ELSE ParsePower(toks)

\* term: factors joined, left to right, by "*", "/", "//", "%".
TermRest(l) == IF l.ok THEN ParseTermRest(l.node, l.rest) ELSE NotParsed

ParseTermRest(left, toks) ==
    IF IsOp(toks, {<<"*">>, <<"/">>, <<"/", "/">>, <<"%">>})
    THEN Then(ParseFactor(Tail(toks)),
              LAMBDA r : TermRest(BinaryNode(toks[1].v, left, r)))
    ELSE Parsed(left, toks)

\* A term that stops at its first factor: "*" and "/" are not taken up.
ParseTerm_one_factor(toks) == ParseFactor(toks)

ParseTerm(toks) == Then(ParseFactor(toks), TermRest)

\* arithmetic expression: terms joined, left to right, by "+" and "-".
ArithRest(l) == IF l.ok THEN ParseArithRest(l.node, l.rest) ELSE NotParsed

ParseArithRest(left, toks) ==
    IF IsOp(toks, {<<"+">>, <<"-">>})
    THEN Then(ParseTerm(Tail(toks)),
              LAMBDA r : ArithRest(BinaryNode(toks[1].v, left, r)))
    ELSE Parsed(left, toks)

ParseArith(toks) == Then(ParseTerm(toks), ArithRest)

\* expression: an arithmetic expression, or a comparison of two.
CompareOf(l) ==
    IF l.ok /\ IsOp(l.rest, {<<"<">>, <<">">>})
    THEN Then(ParseArith(Tail(l.rest)), LAMBDA r : CompareNode(l.node, r))
    ELSE l

ParseExpr(toks) == Then(ParseArith(toks), CompareOf)

\* The whole text must be one expression.
WholeText(e) == IF e.ok /\ e.rest = <<>> THEN e ELSE NotParsed

ParseTokens(t) == IF t.ok THEN Then(ParseExpr(t.toks), WholeText) ELSE NotParsed

\* ast.parse(expression, mode='eval'): the tree of the whole text, or a
\* SyntaxError (ok = FALSE).
ast_parse(expression) == Then(Tokens(expression, 1), ParseTokens)

\* ---- CalculatorTool.safe_operations and safe_functions
\* The operators of safe_operations, by their token, with the ast class name.
safe_operations ==
    {<<"+">>, <<"-">>, <<"*">>, <<"/">>, <<"*", "*">>, <<"%">>}

OpClass(op) ==
    CASE op = <<"+">> -> "Add"
      [] op = <<"-">> -> "Sub"
      [] op = <<"*">> -> "Mult"
      [] op = <<"/">> -> "Div"
      [] op = <<"*", "*">> -> "Pow"
      [] op = <<"%">> -> "Mod"
      [] OTHER -> "FloorDiv"

\* The keys of safe_functions.
safe_function_names ==
    { <<"a", "b", "s">>, <<"r", "o", "u", "n", "d">>, <<"m", "i", "n">>,
      <<"m", "a", "x">>, <<"s", "u", "m">>, <<"s", "i", "n">>, <<"c", "o", "s">>,
      <<"t", "a", "n">>, <<"a", "s", "i", "n">>, <<"a", "c", "o", "s">>,
      <<"a", "t", "a", "n">>, <<"s", "i", "n", "h">>, <<"c", "o", "s", "h">>,
      <<"t", "a", "n", "h">>, <<"l", "o", "g">>, <<"l", "o", "g", "1", "0">>,
      <<"l", "o", "g", "2">>, <<"e", "x", "p">>, <<"s", "q", "r", "t">>,
      <<"c", "e", "i", "l">>, <<"f", "l", "o", "o", "r">>,
      <<"d", "e", "g", "r", "e", "e", "s">>, <<"r", "a", "d", "i", "a", "n", "s">>,
      <<"f", "a", "c", "t", "o", "r", "i", "a", "l">>, <<"p", "i">>, <<"e">> }

\* The two keys whose value is a float, not a function.
safe_constants == { <<"p", "i">>, <<"e">> }

\* What evaluating a node gives: a value or a raised exception with str(e),
\* and the functions that were called on the way.
Value(v, called) ==
    [raised |-> FALSE, val |-> v, msg |-> "", hint |-> "none", called |-> called]

\* `hint` is the kind of suggestion _handle_calculation_error finds in the
\* message: "unsupported", "syntax" or "division by zero" is in it, or none.
Hinted(msg, hint, called) ==
    [raised |-> TRUE, val |-> Num(0), msg |-> msg, hint |-> hint, called |-> called]

Error(msg, called) == Hinted(msg, "none", called)

Unsupported(msg, called) == Hinted(msg, "unsupported", called)

TypeName(v) ==
    CASE v.kind = "str" -> "str"
      [] v.kind = "func" -> "builtin_function_or_method"
      [] v.fl -> "float"
      [] OTHER -> "int"

\* node.value of a number literal.
LiteralValue(lit) ==
    IF \E i \in 1..Len(lit) : lit[i] = "."
    THEN LET dot == CHOOSE i \in 1..Len(lit) : lit[i] = "."
         IN  Float(NatOfDigits(SubSeq(lit, 1, dot - 1) \o SubSeq(lit, dot + 1, Len(lit))),
                   Power10(Len(lit) - dot))
    ELSE Num(NatOfDigits(lit))

RECURSIVE Repeat(_, _)
Repeat(text, n) == IF n <= 0 THEN <<>> ELSE text \o Repeat(text, n - 1)

\* floor(a / b) of two numbers, b not zero.
FloorQuotient(a, b) ==
    LET n == a.n * b.d
        d == a.d * b.n
    IN  IF d > 0 THEN n \div d ELSE (-n) \div (-d)

\* operator.add, sub, mul, truediv, pow, mod on two values.
apply_operation(op, a, b) ==
    LET fl == a.fl \/ b.fl
        unsupported ==
            Unsupported("unsupported operand type(s) for " \o Cat(op) \o ": '"
                    \o TypeName(a) \o "' and '" \o TypeName(b) \o "'", {})
    IN  IF a.kind = "str" /\ b.kind = "str" /\ op = <<"+">>
        THEN Value(StrVal(a.text \o b.text), {})
        ELSE IF a.kind = "str" /\ op = <<"+">>
        THEN Error("can only concatenate str (not \"" \o TypeName(b) \o "\") to str", {})
        ELSE IF a.kind = "str" /\ b.kind = "num" /\ ~b.fl /\ op = <<"*">>
        THEN Value(StrVal(Repeat(a.text, b.n)), {})
        ELSE IF b.kind = "str" /\ a.kind = "num" /\ ~a.fl /\ op = <<"*">>
        THEN Value(StrVal(Repeat(b.text, a.n)), {})
        ELSE IF a.kind \in {"str", "func"} \/ b.kind \in {"str", "func"}
        THEN unsupported
        ELSE IF op \in {<<"/">>, <<"%">>} /\ b.kind = "num" /\ b.n = 0
        THEN IF op = <<"/">>
             THEN Hinted(IF fl THEN "float division by zero" ELSE "division by zero",
                         "division by zero", {})
             ELSE Error(IF fl THEN "float modulo"
                        ELSE "integer division or modulo by zero", {})
        ELSE IF a.kind = "approx" \/ b.kind = "approx"
        THEN Value(Approx(<<>>), {})
        ELSE CASE op = <<"+">> -> Value(Number(a.n * b.d + b.n * a.d, a.d * b.d, fl), {})
               [] op = <<"-">> -> Value(Number(a.n * b.d - b.n * a.d, a.d * b.d, fl), {})
               [] op = <<"*">> -> Value(Number(a.n * b.n, a.d * b.d, fl), {})
               [] op = <<"/">> -> Value(Float(a.n * b.d, a.d * b.n), {})
               [] op = <<"%">> ->
                    LET q == FloorQuotient(a, b)
                    IN  Value(Number(a.n * b.d - q * b.n * a.d, a.d * b.d, fl), {})
               [] OTHER ->
                    IF b.d /= 1 THEN Value(Approx(<<>>), {})
                    ELSE IF b.n >= 0
                    THEN Value(Number(a.n ^ b.n, a.d ^ b.n, fl), {})
                    ELSE IF a.n = 0
                    THEN Error("0.0 cannot be raised to a negative power", {})
                    ELSE Value(Float(a.d ^ (-b.n), a.n ^ (-b.n)), {})

\* operator.neg and operator.pos.
apply_unary(op, a) ==
    IF a.kind \in {"str", "func"}
    THEN Error("bad operand type for unary " \o Cat(op) \o ": '" \o TypeName(a) \o "'", {})
    ELSE IF a.kind = "approx" THEN Value(Approx(<<>>), {})
    ELSE IF op = <<"-">> THEN Value(Number(-a.n, a.d, a.fl), {})
    ELSE Value(a, {})

Less(a, b) == a.n * b.d < b.n * a.d

RECURSIVE Extreme(_, _)
Extreme(args, largest) ==
    IF Len(args) = 1 THEN args[1]
    ELSE LET rest == Extreme(Tail(args), largest)
             first_wins == IF largest THEN ~Less(args[1], rest) ELSE ~Less(rest, args[1])
         IN  IF first_wins THEN args[1] ELSE rest

RECURSIVE Factorial(_)
Factorial(n) == IF n <= 1 THEN 1 ELSE n * Factorial(n - 1)

\* safe_functions[func_name](*args) for values that are numbers, strings or
\* function objects: abs, round, min, max, sum, sqrt, floor, ceil and
\* factorial are computed; the other functions of math give a float that is
\* not computed; asin and acos outside [-1, 1] and the logarithms of what is
\* not positive raise the domain error.
apply_function(name, args) ==
    LET fn == Cat(name)
        count == Cat(DigitsOfNat(Len(args)))
        all_numbers == \A i \in 1..Len(args) : args[i].kind \in {"num", "approx"}
        exact == \A i \in 1..Len(args) : args[i].kind = "num"
        x == args[1]
    IN  IF name \in safe_constants THEN Error("'float' object is not callable", {})
        ELSE IF name \in {<<"m", "i", "n">>, <<"m", "a", "x">>}
        THEN IF Len(args) = 0
             THEN Error(fn \o " expected at least 1 argument, got 0", {name})
             ELSE IF Len(args) = 1
             THEN Error("'" \o TypeName(x) \o "' object is not iterable", {name})
             ELSE IF ~all_numbers
             THEN Error("'<' not supported between instances", {name})
             ELSE IF ~exact THEN Value(Approx(<<>>), {name})
             ELSE Value(Extreme(args, name = <<"m", "a", "x">>), {name})
        ELSE IF name = <<"s", "u", "m">>
        THEN IF Len(args) = 0
             THEN Error("sum() takes at least 1 positional argument (0 given)", {name})
             ELSE Error("'" \o TypeName(x) \o "' object is not iterable", {name})
        ELSE IF name = <<"r", "o", "u", "n", "d">> /\ Len(args) = 2
        THEN IF exact /\ ~x.fl /\ ~args[2].fl /\ args[2].n >= 0
             THEN Value(x, {name})
             ELSE IF all_numbers THEN Value(Approx(<<>>), {name})
             ELSE Error("type " \o TypeName(x) \o " doesn't define __round__ method", {name})
        ELSE IF Len(args) /= 1
        THEN Error((IF name \in {<<"a", "b", "s">>, <<"r", "o", "u", "n", "d">>}
                    THEN fn ELSE "math." \o fn)
                     \o "() takes exactly one argument (" \o count \o " given)", {name})
        ELSE IF x.kind = "str" THEN Error("must be real number, not str", {name})
        ELSE IF x.kind = "func"
        THEN Error("must be real number, not builtin_function_or_method", {name})
        ELSE IF x.kind = "approx" THEN Value(Approx(<<>>), {name})
        ELSE CASE name = <<"a", "b", "s">> -> Value(Number(Abs(x.n), x.d, x.fl), {name})
               [] name = <<"r", "o", "u", "n", "d">> -> Value(Num(RoundHalfEven(x)), {name})
               [] name = <<"f", "l", "o", "o", "r">> -> Value(Num(Floor(x)), {name})
               [] name = <<"c", "e", "i", "l">> -> Value(Num(-((-x.n) \div x.d)), {name})
               [] name = <<"s", "q", "r", "t">> ->
                    IF x.n < 0 THEN Error("math domain error", {name})
                    ELSE IF IsSquare(x.n) /\ IsSquare(x.d)
                    THEN Value(Float(SqrtNat(x.n), SqrtNat(x.d)), {name})
                    ELSE Value(Approx(<<>>), {name})
               [] name = <<"f", "a", "c", "t", "o", "r", "i", "a", "l">> ->
                    IF x.fl
                    THEN Error("'float' object cannot be interpreted as an integer", {name})
                    ELSE IF x.n < 0
                    THEN Error("factorial() not defined for negative values", {name})
                    ELSE Value(Num(Factorial(x.n)), {name})
               [] name \in {<<"a", "s", "i", "n">>, <<"a", "c", "o", "s">>} ->
                    IF Abs(x.n) > x.d THEN Error("math domain error", {name})
                    ELSE Value(Approx(<<>>), {name})
               [] name \in {<<"l", "o", "g">>, <<"l", "o", "g", "1", "0">>,
                            <<"l", "o", "g", "2">>} ->
                    IF x.n <= 0 THEN Error("math domain error", {name})
                    ELSE Value(Approx(<<>>), {name})
               [] OTHER -> Value(Approx(<<>>), {name})

\* ---- _eval_node
\* A result with the functions called before it added to its own.
AlsoCalled(r, called) == [r EXCEPT !.called = @ \cup called]

\* op(left, right) once both operands are evaluated, left first; the operator
\* is looked up in safe_operations after them.
BinResult(op, left, right) ==
    IF left.raised THEN left
    ELSE IF right.raised THEN AlsoCalled(right, left.called)
    ELSE IF op \in safe_operations
    THEN Then(apply_operation(op, left.val, right.val),
              LAMBDA r : AlsoCalled(r, left.called \cup right.called))
    ELSE Unsupported("Unsupported operation: <class 'ast." \o OpClass(op) \o "'>",
                     left.called \cup right.called)

UnaryResult(op, operand) ==
    IF operand.raised THEN operand
    ELSE Then(apply_unary(op, operand.val), LAMBDA r : AlsoCalled(r, operand.called))

\* safe_functions[func_name](*args) once the positional arguments are
\* evaluated; the keyword arguments of the call are not looked at.
CallResult(name, args) ==
    IF args.raised THEN args.error
    ELSE Then(apply_function(name, args.values), LAMBDA r : AlsoCalled(r, args.called))

RECURSIVE eval_node(_)
RECURSIVE eval_args(_, _, _)
RECURSIVE NextValue(_, _, _, _)

\* The arguments of a call evaluated left to right, up to the first that
\* raises; `called` collects the functions called inside them.
NextValue(first, rest, values, called) ==
    IF first.raised
    THEN [raised |-> TRUE, values |-> values, error |-> AlsoCalled(first, called),
          called |-> called \cup first.called]
    ELSE eval_args(rest, Append(values, first.val), called \cup first.called)

eval_args(args, values, called) ==
    IF args = <<>>
    THEN [raised |-> FALSE, values |-> values, error |-> Value(Num(0), called),
          called |-> called]
    ELSE Then(eval_node(args[1]),
              LAMBDA first : NextValue(first, Tail(args), values, called))

eval_node(node) ==
    IF node.type = "Constant"
    THEN Value(IF node.kind = "str" THEN StrVal(node.text) ELSE LiteralValue(node.text), {})
    ELSE IF node.type = "BinOp"
    THEN Then(eval_node(node.left),
              LAMBDA left :
                  IF left.raised THEN left
                  ELSE Then(eval_node(node.right),
                            LAMBDA right : BinResult(node.op, left, right)))
    ELSE IF node.type = "UnaryOp"
    THEN Then(eval_node(node.operand), LAMBDA operand : UnaryResult(node.op, operand))
    ELSE IF node.type = "Call"
    THEN IF node.func.type = "Name" /\ node.func.id \in safe_function_names
         THEN Then(eval_args(node.args, <<>>, {}),
                   LAMBDA args : CallResult(node.func.id, args))
         ELSE Unsupported("Unsupported function: "
                            \o (IF node.func.type = "Name" THEN Cat(node.func.id)
                                ELSE "None"), {})
    ELSE IF node.type = "Name"
    THEN IF node.id \in safe_constants
         THEN Value(Approx(IF node.id = <<"e">>
                           THEN <<"2", ".", "7", "1", "8", "2", "8", "2">>
                           ELSE <<"3", ".", "1", "4", "1", "5", "9", "3">>), {})
         ELSE IF node.id \in safe_function_names THEN Value(FuncVal(node.id), {})
         ELSE Unsupported("Unsupported variable: " \o Cat(node.id), {})
    ELSE Unsupported("Unsupported node type: <class 'ast." \o node.type \o "'>", {})

\* _eval_with_functions: eval of the text in a namespace that holds the safe
\* functions and no builtins. _safe_eval comes here only with a text that
\* ast.parse rejected, and eval compiles with the same grammar, so it raises
\* the SyntaxError again (`compiled` is what compiling the text gives); a text
\* that compiled would be evaluated without the node whitelist, which
\* `called` records as "eval". The SyntaxError's own wording ("invalid
\* syntax", "invalid decimal literal", "'(' was never closed", each with the
\* place) is kept as "invalid syntax", and so is the hint "syntax" that only
\* the wordings with that word get.
eval_with_functions(compiled) ==
    IF compiled.ok THEN Value(Approx(<<>>), {<<"e", "v", "a", "l">>})
    ELSE Hinted("Expression evaluation failed: invalid syntax", "syntax", {})

\* _safe_eval on what ast.parse gave: the tree evaluated by _eval_node, or
\* after a SyntaxError the fallback.
EvalTree(tree) ==
    IF tree.ok THEN eval_node(tree.node) ELSE eval_with_functions(tree)

safe_eval(expression) == Then(ast_parse(expression), EvalTree)

\* ---- _preprocess_expression
StartsWith(s, i, word) ==
    i + Len(word) - 1 <= Len(s) /\ SubSeq(s, i, i + Len(word) - 1) = word

SkipSpace(s, i) == i + RunLen(s, i, Whitespace)

\* The number (\d+(?:\.\d+)?) at position i, when it is followed by "%":
\* its length, or 0.
PercentNumberLen(s, i) ==
    LET n == NumberLen(s, i)
    IN  IF n > 0 /\ i + n <= Len(s) /\ s[i + n] = "%" THEN n ELSE 0

\* re.sub of (\d+(?:\.\d+)?)%\s*of\s*(\d+(?:\.\d+)?) by (\1 * \2 / 100).
RECURSIVE SubPercentOf(_, _)
SubPercentOf(s, i) ==
    IF i > Len(s) THEN <<>>
    ELSE LET n == PercentNumberLen(s, i)
             of == SkipSpace(s, i + n + 1)
             y == SkipSpace(s, of + 2)
             m == NumberLen(s, y)
         IN  IF n > 0 /\ StartsWith(s, of, <<"o", "f">>) /\ m > 0
             THEN <<"(">> \o SubSeq(s, i, i + n - 1) \o <<" ", "*", " ">>
                    \o SubSeq(s, y, y + m - 1)
                    \o <<" ", "/", " ", "1", "0", "0", ")">>
                    \o SubPercentOf(s, y + m)
             ELSE <<s[i]>> \o SubPercentOf(s, i + 1)

\* re.sub of <verb>\s+(\d+(?:\.\d+)?)\s+by\s+(\d+(?:\.\d+)?)% by
\* (\1 * (1 <sign> \2/100)), for "increase" with + and "decrease" with -.
RECURSIVE SubChangeBy(_, _, _, _)
SubChangeBy(s, i, verb, sign) ==
    IF i > Len(s) THEN <<>>
    ELSE LET x == SkipSpace(s, i + Len(verb))
             n == NumberLen(s, x)
             by == SkipSpace(s, x + n)
             y == SkipSpace(s, by + 2)
             m == PercentNumberLen(s, y)
         IN  IF /\ StartsWith(s, i, verb)
                /\ x > i + Len(verb)
                /\ n > 0
                /\ by > x + n
                /\ StartsWith(s, by, <<"b", "y">>)
                /\ y > by + 2
                /\ m > 0
             THEN <<"(">> \o SubSeq(s, x, x + n - 1) \o <<" ", "*", " ", "(", "1", " ">>
                    \o <<sign, " ">> \o SubSeq(s, y, y + m - 1)
                    \o <<"/", "1", "0", "0", ")", ")">>
                    \o SubChangeBy(s, y + m + 1, verb, sign)
             ELSE <<s[i]>> \o SubChangeBy(s, i + 1, verb, sign)

\* re.sub of (\d+(?:\.\d+)?)% by (\1/100).
RECURSIVE SubPercent(_, _)
SubPercent(s, i) ==
    IF i > Len(s) THEN <<>>
    ELSE LET n == PercentNumberLen(s, i)
         IN  IF n > 0
             THEN <<"(">> \o SubSeq(s, i, i + n - 1) \o <<"/", "1", "0", "0", ")">>
                    \o SubPercent(s, i + n + 1)
             ELSE <<s[i]>> \o SubPercent(s, i + 1)

handle_percentages(expr) ==
    Then(Then(Then(SubPercentOf(expr, 1),
                   LAMBDA s : SubChangeBy(s, 1, <<"i", "n", "c", "r", "e", "a", "s", "e">>,
                                          "+")),
              LAMBDA s : SubChangeBy(s, 1, <<"d", "e", "c", "r", "e", "a", "s", "e">>, "-")),
         LAMBDA s : SubPercent(s, 1))

\* The word-based operations, in the order of the dict.
replacements ==
    <<
       <<<<" ", "p", "l", "u", "s", " ">>,
         <<" ", "+", " ">>>>,
       <<<<" ", "m", "i", "n", "u", "s", " ">>,
         <<" ", "-", " ">>>>,
       <<<<" ", "t", "i", "m", "e", "s", " ">>,
         <<" ", "*", " ">>>>,
       <<<<" ", "m", "u", "l", "t", "i", "p", "l", "i", "e", "d", " ", "b", "y", " ">>,
         <<" ", "*", " ">>>>,
       <<<<" ", "d", "i", "v", "i", "d", "e", "d", " ", "b", "y", " ">>,
         <<" ", "/", " ">>>>,
       <<<<" ", "t", "o", " ", "t", "h", "e", " ", "p", "o", "w", "e", "r", " ", "o", "f", " ">>,
         <<" ", "*", "*", " ">>>>,
       <<<<" ", "s", "q", "u", "a", "r", "e", "d">>,
         <<" ", "*", "*", " ", "2">>>>,
       <<<<" ", "c", "u", "b", "e", "d">>,
         <<" ", "*", "*", " ", "3">>>>,
       <<<<"s", "q", "u", "a", "r", "e", " ", "r", "o", "o", "t", " ", "o", "f", " ">>,
         <<"s", "q", "r", "t", "(">>>>,
       <<<<"s", "q", "r", "t", " ", "o", "f", " ">>,
         <<"s", "q", "r", "t", "(">>>>,
       <<<<"s", "i", "n", " ", "o", "f", " ">>,
         <<"s", "i", "n", "(">>>>,
       <<<<"c", "o", "s", " ", "o", "f", " ">>,
         <<"c", "o", "s", "(">>>>,
       <<<<"t", "a", "n", " ", "o", "f", " ">>,
         <<"t", "a", "n", "(">>>>,
       <<<<"l", "o", "g", " ", "o", "f", " ">>,
         <<"l", "o", "g", "(">>>>,
       <<<<"l", "n", " ", "o", "f", " ">>,
         <<"l", "o", "g", "(">>>>
    >>

\* str.replace(word, symbol).
RECURSIVE Replace(_, _, _, _)
Replace(s, i, word, symbol) ==
    IF i > Len(s) THEN <<>>
    ELSE IF StartsWith(s, i, word)
    THEN symbol \o Replace(s, i + Len(word), word, symbol)
    ELSE <<s[i]>> \o Replace(s, i + 1, word, symbol)

RECURSIVE ReplaceWords(_, _)
ReplaceWords(s, k) ==
    IF k > Len(replacements) THEN s
    ELSE Then(Replace(s, 1, replacements[k][1], replacements[k][2]),
              LAMBDA replaced : ReplaceWords(replaced, k + 1))

\* re.sub of (\d)\( by \1*( and then of \)(\d) by )*\1.
RECURSIVE ImplicitBefore(_, _)
ImplicitBefore(s, i) ==
    IF i > Len(s) THEN <<>>
    ELSE IF s[i] \in Digits /\ i < Len(s) /\ s[i + 1] = "("
    THEN <<s[i], "*">> \o ImplicitBefore(s, i + 1)
    ELSE <<s[i]>> \o ImplicitBefore(s, i + 1)

RECURSIVE ImplicitAfter(_, _)
ImplicitAfter(s, i) ==
    IF i > Len(s) THEN <<>>
    ELSE IF s[i] = ")" /\ i < Len(s) /\ s[i + 1] \in Digits
    THEN <<s[i], "*">> \o ImplicitAfter(s, i + 1)
    ELSE <<s[i]>> \o ImplicitAfter(s, i + 1)

PercentStep(low) ==
    IF \E i \in 1..Len(low) : low[i] = "%" THEN handle_percentages(low) ELSE low

\* _preprocess_expression: lower-case and strip, rewrite the percentages when
\* the text has a "%", replace the operator words, make the multiplication
\* around parentheses explicit, drop the whitespace.
preprocess_expression(expr) ==
    Then(Then(Then(Then(Then(Strip(Lower(expr)), PercentStep),
                        LAMBDA s : ReplaceWords(s, 1)),
                   LAMBDA s : ImplicitBefore(s, 1)),
              LAMBDA s : ImplicitAfter(s, 1)),
         LAMBDA s : SelectSeq(s, LAMBDA c : c \notin Whitespace))

\* ---- calculate
\* _handle_calculation_error: the error text with str(e) in it, and the
\* suggestions that go with the kind of message.
handle_calculation_error(error, hint) ==
    [kind |-> "error", text |-> error, hint |-> hint]

WithCalled(shown, called) ==
    [kind |-> shown.kind, text |-> shown.text, hint |-> shown.hint, called |-> called]

\* What calculate makes of the evaluation: the formatted result, or for any
\* exception the error text.
Answer(result) ==
    WithCalled(IF result.raised THEN handle_calculation_error(result.msg, result.hint)
               ELSE format_result(result.val),
               result.called)

\* The body of calculate: preprocess, evaluate, format. `called` holds what
\* was executed.
calculate_outcome(expression) ==
    Then(Then(preprocess_expression(expression), safe_eval), Answer)

Response(outcome) ==
    CASE outcome.kind = "error" -> Ret("Calculation Error: " \o outcome.text)
      [] outcome.kind = "result" -> Ret("Calculation Result: " \o outcome.text)
      [] OTHER -> Ret("Calculation completed but formatting failed: " \o outcome.text)

\* CalculatorTool.calculate: the result formatted, or the error formatted;
\* nothing is raised past it.
calculate(expression) == Then(calculate_outcome(expression), Response)

\* ----------------------------------------------------------- MathSolverTool
\* What the solver's oracle call does.
OracleOutcomes ==
    {[kind |-> "ok", msg |-> ""], [kind |-> "error", msg |-> "Connection error."]}

\* MathSolverTool.__init__: llm is a ChatGroq client when the environment has
\* GROQ_API_KEY and None otherwise (with a warning); it does not raise.
MathSolverTool_init(groq_api_key) == [raised |-> FALSE, credential |-> groq_api_key]

\* MathSolverTool.solve: without an LLM the "not available" text; an oracle
\* failure comes back as the solver's error text.
solve(llm, outcome) ==
    IF ~llm THEN Ret("Math solver is not available (LLM not configured)")
    ELSE IF outcome.kind = "error"
    THEN Ret("Math Solver Error: " \o outcome.msg)
    ELSE Ret("Math Solution")

\* llm.invoke calls solve makes: none without the LLM, otherwise one.
solve_attempts(llm, outcome) == IF llm THEN 1 ELSE 0

\* ----------------------------------------------------------- DocumentQATool
\* What a document question meets: no index in memory or on disk, an index
\* without a relevant chunk, a failure on the way, or an answer.
DocOutcomes ==
    {[kind |-> k, msg |-> ""] : k \in {"ok", "no_index", "no_relevant"}}
    \cup {[kind |-> "error", msg |-> "Connection error."]}

\* DocumentQATool.answer_question: every failure comes back as text.
answer_question(outcome) ==
    CASE outcome.kind = "no_index" ->
           Ret("No documents available. Please upload documents first.")
      [] outcome.kind = "no_relevant" ->
           Ret("No relevant information found in the documents.")
      [] outcome.kind = "error" ->
           Ret("Error processing your question: " \o outcome.msg)
      [] OTHER -> Ret("Document-Based Answer")

\* llm.invoke calls answer_question makes: one, in _generate_answer, when the
\* retrieval found chunks; an "error" outcome is a failure of the retrieval
\* or of what follows that one call.
answer_attempts(outcome) == IF outcome.kind \in {"ok", "error"} THEN 1 ELSE 0

\* ---- answer_question after the similarity search
\* A chunk: a Document with metadata["source_file"] and page_content.
Doc(source_file, page_content) ==
    [source_file |-> source_file, page_content |-> page_content]

\* The files chunks come from, in sorted order.
SourceFiles == <<"a.txt", "b.txt">>

\* The length _fallback_answer cuts an excerpt at.
ExcerptLen == 300

\* What _fallback_answer is called with: a list of Documents, or a str.
DocList(docs) == [type |-> "list", docs |-> docs, text |-> ""]

Str(text) == [type |-> "str", docs |-> <<>>, text |-> text]

\* _create_context: "Document i (source):" and the content of each chunk.
RECURSIVE context_parts(_, _)
context_parts(relevant_docs, i) ==
    IF i > Len(relevant_docs) THEN ""
    ELSE "Document " \o Cat(DigitsOfNat(i)) \o " (" \o relevant_docs[i].source_file
           \o "):\n" \o Cat(relevant_docs[i].page_content)
           \o (IF i < Len(relevant_docs) THEN "\n\n" ELSE "")
           \o context_parts(relevant_docs, i + 1)

create_context(relevant_docs) == context_parts(relevant_docs, 1)

\* The excerpt of one chunk: its first ExcerptLen characters and "..." when
\* it is longer, else all of it.
Excerpt(page_content) ==
    IF Len(page_content) > ExcerptLen
    THEN Cat(SubSeq(page_content, 1, ExcerptLen)) \o "..."
    ELSE Cat(page_content)

RECURSIVE excerpts(_, _)
excerpts(docs, i) ==
    IF i > Len(docs) THEN ""
    ELSE "**From " \o docs[i].source_file \o ":**\n" \o Excerpt(docs[i].page_content)
           \o "\n\n" \o excerpts(docs, i + 1)

\* _fallback_answer: the loop reads doc.metadata of every element of
\* relevant_docs; the elements of a str are its characters, which have no
\* metadata, so a str that is not empty makes it raise.
fallback_answer(relevant_docs) ==
    IF relevant_docs.type = "str" /\ relevant_docs.text /= ""
    THEN Raise("'str' object has no attribute 'metadata'")
    ELSE Ret("Based on the uploaded documents:\n\n" \o excerpts(relevant_docs.docs, 1)
               \o "*Note: Advanced analysis unavailable (LLM not configured)*")

\* _generate_answer: the completion of llm.invoke; when the call raises, the
\* except branch calls _fallback_answer(question, context), with the context
\* string where the documents are expected.
generate_answer(reply, context, relevant_docs) ==
    IF reply.raised THEN fallback_answer(Str(context)) ELSE Ret(reply.val)

RECURSIVE source_lines(_, _)
source_lines(sources, i) ==
    IF i > Len(SourceFiles) THEN ""
    ELSE (IF \E k \in 1..Len(sources) : sources[k].source_file = SourceFiles[i]
          THEN "* " \o SourceFiles[i] \o "\n" ELSE "")
           \o source_lines(sources, i + 1)

\* _format_qa_response (without the emoji and the question line).
format_qa_response(answer, sources) ==
    "**Document-Based Answer**\n\n**Answer:**\n" \o answer \o "\n\n**Sources:**\n"
      \o source_lines(sources, 1) \o "\n*Answer generated from "
      \o Cat(DigitsOfNat(Len(sources))) \o " relevant document sections*"

\* The answer once the chunks are there: generated with the LLM when there
\* is one, else the excerpts; an exception on the way reaches the except of
\* answer_question.
Answered(answer, relevant_docs) ==
    IF answer.raised THEN Ret("Error processing your question: " \o answer.val)
    ELSE Ret(format_qa_response(answer.val, relevant_docs))

\* answer_question for a tool with (`index`) or without an index to search,
\* `relevant_docs` being what similarity_search gives and `reply` what
\* llm.invoke does.
answer_with_docs(llm, index, relevant_docs, reply) ==
    IF ~index THEN Ret("No documents available. Please upload documents first.")
    ELSE IF relevant_docs = <<>>
    THEN Ret("No relevant information found in the documents.")
    ELSE Then(IF llm
              THEN generate_answer(reply, create_context(relevant_docs), relevant_docs)
              ELSE fallback_answer(DocList(relevant_docs)),
              LAMBDA answer : Answered(answer, relevant_docs))

\* --------------------------------------------------------------- the oracle
\* Completions llm_powerful gives in general chat; the empty completion is one.
ChatCompletions == {"Hello! How can I help?", ""}

\* llm_powerful.invoke(messages): a completion, or an exception.
ChatReplies == {Ret(c) : c \in ChatCompletions} \cup {Raise(m) : m \in ExcMessages}

\* Completions llm_fast gives to the routing prompt: exact labels, labels that
\* need trimming or lower-casing, the empty text, and text that is no label.
RouterCompletions ==
    { web_search,
      <<" ", "C", "a", "l", "c", "u", "l", "a", "t", "o", "r", "\n">>,
      <<"M", "A", "T", "H", "_", "S", "O", "L", "V", "E", "R">>,
      document_qa,
      general_chat,
      <<>>,
      <<"c", "a", "l", "c", "u", "l", "a", "t", "o", "r", " ", "t", "o", "o", "l">> }

\* llm_fast.invoke(prompt): a completion (content), or an exception (msg).
RouterReplies ==
    {[raised |-> FALSE, content |-> c, msg |-> ""] : c \in RouterCompletions}
    \cup {[raised |-> TRUE, content |-> <<>>, msg |-> m] : m \in ExcMessages}

\* =================================================================== state
VARIABLES
    pc,             \* per call: where process_query stands
    state,          \* per call: the AgentState of the running workflow
    node,           \* per call: the handler node the conditional edge selected
    log_data,       \* per call: the record log_interaction has built
    result,         \* per call: what process_query returned
    ran,            \* history, per call: the graph nodes run so far, in order
    router_reply,   \* history, per call: what the routing oracle answered
    handler_failed, \* history, per call: whether the handler's own work failed
    write_outcome,  \* history, per call: what the log write did
    nlogged,        \* history, per call: complete records appended for it
    asked,          \* history, per call: the query the caller passed
    handler_call,   \* history, per call: what the handler's tool call gave
    attempts,       \* history, per call: oracle and network calls made
    stats,          \* what get_routing_stats returned last
    logs,           \* data/logs: for each day, the lines of that day's file
    today,          \* the calendar day the clock shows
    serper_key,     \* WebSearchTool.api_key is set
    math_llm,       \* MathSolverTool.llm is set
    fbQuery,        \* fallback check: the query under test
    fbLabels,       \* fallback check: labels of the query and its re-casings
    fbPhase,        \* fallback check: "off", "input" or "labelled"
    disk_index,     \* data/vector_store/faiss_index: version of each of its files
    builder_store,  \* vector_store of the DocumentQATool that rebuilds
    reader_store,   \* vector_store of the DocumentQATool the controller dispatches to
    loading,        \* what the reader's load_local has read so far
    index_pc,       \* where the rebuild and the dispatch stand
    served,         \* history: the indexes similarity_search was served from
    calc_input,     \* calculator check: the expression text and what it was built from
    calc_outcome,   \* calculator check: what calculate gave for it
    calc_pc,        \* calculator check: "off", "asked" or "answered"
    environ,        \* tool check: which credentials os.environ holds
    tool,           \* tool check: per tool, whether it is built and its credential
    tool_calls,     \* tool check, history: the calls made and what each gave
    eval_set,       \* evaluation: the items drawn, with what the stubbed agent does on each
    eval_next,      \* evaluation: position of the loop in the items
    eval_results,   \* evaluation: the results dictionary
    eval_pc,        \* evaluation: "off", "items" or "returned"
    doc_input,      \* document question: the tool's llm, index and chunks, the oracle's reply
    doc_answer,     \* document question: what answer_question returned
    doc_pc          \* document question: "off", "asked" or "answered"

vars ==
    <<pc, state, node, log_data, result, ran, router_reply, handler_failed,
      write_outcome, nlogged, asked, handler_call, attempts, stats,
      logs, today, serper_key, math_llm, fbQuery, fbLabels, fbPhase,
      disk_index, builder_store, reader_store, loading, index_pc, served,
      calc_input, calc_outcome, calc_pc, environ, tool, tool_calls,
      eval_set, eval_next, eval_results, eval_pc,
      doc_input, doc_answer, doc_pc>>

reqVars ==
    <<pc, state, node, log_data, result, ran, router_reply, handler_failed,
      write_outcome, nlogged, asked, handler_call, attempts>>

envVars == <<logs, today, serper_key, math_llm, stats>>

fbVars == <<fbQuery, fbLabels, fbPhase>>

indexVars == <<disk_index, builder_store, reader_store, loading, index_pc, served>>

\* The variables of the checks of single components, which the controller's
\* calls leave alone.
calcVars == <<calc_input, calc_outcome, calc_pc>>

toolVars == <<environ, tool, tool_calls>>

evalVars == <<eval_set, eval_next, eval_results, eval_pc>>

docVars == <<doc_input, doc_answer, doc_pc>>

unitVars == <<indexVars, calcVars, toolVars, evalVars, docVars>>

Reqs == 1..NumReqs

Days == 1..MaxDay

\* AgentState as process_query builds it (messages, never read, is left out).
initial_state(query) ==
    [query |-> query, tool_used |-> "", response |-> "",
     routing_decision |-> <<>>, error |-> ""]

NoRecord == [timestamp |-> 0, query |-> <<>>, routing_decision |-> <<>>,
             tool_used |-> "", response_length |-> 0, error |-> ""]

\* The dict process_query returns carries response, tool_used,
\* routing_decision and error; `path` records how the call ended: through the
\* workflow, or through the outermost except ("none": not returned yet).
NoResult == [response |-> "", tool_used |-> "", routing_decision |-> <<>>,
             error |-> "", path |-> "none"]

NoReply == [raised |-> FALSE, content |-> <<>>, msg |-> "none"]

\* ============================================================ graph nodes
\* A route_query that trusts the completion without validating it.
route_query_unvalidated(st, reply) ==
    IF reply.raised
    THEN [st EXCEPT !.routing_decision = fallback_routing(st.query),
                    !.error = "Routing error: " \o reply.msg]
    ELSE [st EXCEPT !.routing_decision = Lower(Strip(reply.content))]

\* route_query: the completion, stripped and lower-cased, is the decision when
\* it is a valid route; otherwise, and when the call raises, the fallback is.
route_query(st, reply) ==
    IF reply.raised
    THEN [st EXCEPT !.routing_decision = fallback_routing(st.query),
                    !.error = "Routing error: " \o reply.msg]
    ELSE LET routing_decision == Lower(Strip(reply.content))
         IN  [st EXCEPT !.routing_decision =
                  IF routing_decision \notin valid_routes
                  THEN fallback_routing(st.query)
                  ELSE routing_decision]

\* determine_route: the key the conditional edge looks up.
determine_route(st) == st.routing_decision

\* A conditional edge that sends every key to the general_chat node.
path_map_all_chat(key) == "general_chat"

\* The mapping add_conditional_edges is given: route label -> node name.
path_map(key) ==
    CASE key = web_search -> "web_search"
      [] key = calculator -> "calculator"
      [] key = math_solver -> "math_solver"
      [] key = document_qa -> "document_qa"
      [] key = general_chat -> "general_chat"

HandlerNodes ==
    {"web_search", "calculator", "math_solver", "document_qa", "general_chat"}

\* tool_used of each handler node (without the emoji).
ToolLabel(n) ==
    CASE n = "web_search" -> "Web Search"
      [] n = "calculator" -> "Calculator"
      [] n = "math_solver" -> "Math Solver"
      [] n = "document_qa" -> "Document QA"
      [] n = "general_chat" -> "General Chat"

FailPrefix(n) ==
    CASE n = "web_search" -> "Web search failed: "
      [] n = "calculator" -> "Calculation failed: "
      [] n = "math_solver" -> "Math solving failed: "
      [] n = "document_qa" -> "Document QA failed: "
      [] n = "general_chat" -> "General chat failed: "

\* A handler that normalises the query in the state before its tool call.
use_tool_normalising(st, n, call) ==
    IF call.raised
    THEN [st EXCEPT !.query = Lower(Strip(st.query)),
                    !.response = FailPrefix(n) \o call.val,
                    !.tool_used = ToolLabel(n) \o " (Error)",
                    !.error = call.val]
    ELSE [st EXCEPT !.query = Lower(Strip(st.query)),
                    !.response = call.val, !.tool_used = ToolLabel(n)]

\* The body shared by use_web_search, use_calculator, use_math_solver,
\* use_document_qa and use_general_chat: try the call; on an exception write
\* the failure text, the marked label and the error.
use_tool(st, n, call) ==
    IF call.raised
    THEN [st EXCEPT !.response = FailPrefix(n) \o call.val,
                    !.tool_used = ToolLabel(n) \o " (Error)",
                    !.error = call.val]
    ELSE [st EXCEPT !.response = call.val, !.tool_used = ToolLabel(n)]

use_web_search(st, call) == use_tool(st, "web_search", call)

use_calculator(st, call) == use_tool(st, "calculator", call)

use_math_solver(st, call) == use_tool(st, "math_solver", call)

use_document_qa(st, call) == use_tool(st, "document_qa", call)

use_general_chat(st, call) == use_tool(st, "general_chat", call)

\* ========================================================= process_query
\* An outermost boundary that reports the failure under the General Chat label.
error_result_as_chat(msg) ==
    [response |-> "I encountered an error processing your request: " \o msg,
     tool_used |-> "General Chat", routing_decision |-> general_chat,
     error |-> msg, path |-> "boundary"]

\* The dict of the outermost except branch of process_query.
error_result(msg) ==
    [response |-> "I encountered an error processing your request: " \o msg,
     tool_used |-> "Error", routing_decision |-> <<"e", "r", "r", "o", "r">>,
     error |-> msg, path |-> "boundary"]

\* A process_query that builds its dict from initial_state instead of the
\* final state the workflow returned.
final_result_of_initial(st) ==
    [response |-> initial_state(st.query).response,
     tool_used |-> initial_state(st.query).tool_used,
     routing_decision |-> initial_state(st.query).routing_decision,
     error |-> initial_state(st.query).error, path |-> "workflow"]

\* The dict process_query returns from the final state of the workflow.
final_result(st) ==
    [response |-> st.response, tool_used |-> st.tool_used,
     routing_decision |-> st.routing_decision, error |-> st.error,
     path |-> "workflow"]

\* A log_interaction that records the state the call started with.
build_log_data_of_initial(st, day) ==
    [timestamp |-> day, query |-> st.query,
     routing_decision |-> initial_state(st.query).routing_decision,
     tool_used |-> initial_state(st.query).tool_used,
     response_length |-> Len(initial_state(st.query).response),
     error |-> initial_state(st.query).error]

\* log_data of log_interaction, stamped with the day the clock shows.
build_log_data(st, day) ==
    [timestamp |-> day, query |-> st.query,
     routing_decision |-> st.routing_decision, tool_used |-> st.tool_used,
     response_length |-> Len(st.response), error |-> st.error]

\* What open(...,"a") and f.write do: append the whole line, fail before
\* anything is written, or fail after part of the line was written.
WriteOutcomes == {"ok", "fails", "torn"}

\* A log_interaction that writes the line again when the first write fails.
append_line_retrying(file, rec, outcome) ==
    CASE outcome = "ok" -> Append(file, [kind |-> "record", rec |-> rec])
      [] outcome = "torn" ->
           Append(Append(file, [kind |-> "torn", rec |-> rec]),
                  [kind |-> "record", rec |-> rec])
      [] OTHER -> Append(file, [kind |-> "record", rec |-> rec])

\* A log_interaction that opens the daily file for writing, not appending.
append_line_rewriting(file, rec, outcome) ==
    CASE outcome = "ok" -> <<[kind |-> "record", rec |-> rec]>>
      [] outcome = "torn" -> <<[kind |-> "torn", rec |-> rec]>>
      [] OTHER -> <<>>

\* The daily file after log_interaction's write.
append_line(file, rec, outcome) ==
    CASE outcome = "ok" -> Append(file, [kind |-> "record", rec |-> rec])
      [] outcome = "torn" -> Append(file, [kind |-> "torn", rec |-> rec])
      [] OTHER -> file

\* ================================================================= actions
NoCall == [raised |-> FALSE, val |-> "none"]

NoAttempts == [router |-> 0, handler |-> 0]

NoStats == [label \in valid_routes |-> 0]

\* A controller that keeps the AgentState of every call in one shared place.
state_owner_shared(r) == 1

\* initial_state is a local of the process_query call that builds it: the
\* AgentState of call r is r's own.
state_owner(r) == r

\* The controller as constructed, with `ids` the calls that will be made.
ControllerInitFor(ids) ==
    /\ pc = [r \in ids |-> "idle"]
    /\ state = [r \in ids |-> initial_state(<<>>)]
    /\ node = [r \in ids |-> "none"]
    /\ log_data = [r \in ids |-> NoRecord]
    /\ result = [r \in ids |-> NoResult]
    /\ ran = [r \in ids |-> <<>>]
    /\ router_reply = [r \in ids |-> NoReply]
    /\ handler_failed = [r \in ids |-> FALSE]
    /\ write_outcome = [r \in ids |-> "none"]
    /\ nlogged = [r \in ids |-> 0]
    /\ asked = [r \in ids |-> <<>>]
    /\ handler_call = [r \in ids |-> NoCall]
    /\ attempts = [r \in ids |-> NoAttempts]
    /\ stats = NoStats
    /\ logs = [d \in Days |-> <<>>]
    /\ today = 1
    /\ serper_key \in BOOLEAN
    /\ math_llm = TRUE

ControllerInit == ControllerInitFor(Reqs)

FbOff ==
    /\ fbQuery = <<>>
    /\ fbLabels = [given |-> <<>>, upper |-> <<>>, lower |-> <<>>]
    /\ fbPhase = "off"

\* The retrieval index before any document was uploaded: no snapshot on
\* disk, no index in memory.
IndexOff ==
    /\ disk_index = [faiss |-> 0, pkl |-> 0]
    /\ builder_store = [faiss |-> 0, pkl |-> 0]
    /\ reader_store = [faiss |-> 0, pkl |-> 0]
    /\ loading = [faiss |-> 0, pkl |-> 0]
    /\ index_pc = [builder |-> "idle", reader |-> "idle"]
    /\ served = {}

NoInput == [shape |-> "none", a |-> 0, b |-> 0, c |-> 0, text |-> <<>>]

NoOutcome == [kind |-> "none", text |-> "", hint |-> "none", called |-> {}]

CalcOff ==
    /\ calc_input = NoInput
    /\ calc_outcome = NoOutcome
    /\ calc_pc = "off"

NotBuilt == [built |-> "no", credential |-> FALSE]

ToolsOff ==
    /\ environ = [serper |-> FALSE, groq |-> FALSE]
    /\ tool = [web_search |-> NotBuilt, math_solver |-> NotBuilt]
    /\ tool_calls = <<>>

\* The results dictionary as run_gsm8k_evaluation and run_lama_evaluation
\* first build it; category_performance is a dict, here a function on the
\* categories met so far; `error` says it is the dictionary of the outer
\* except, which has no details and no category_performance.
NewResults(total) ==
    [total |-> total, correct_answers |-> 0, accuracy |-> Float(0, 1),
     details |-> <<>>, category_performance |-> <<>>, error |-> FALSE]

EvalOff ==
    /\ eval_set = <<>>
    /\ eval_next = 0
    /\ eval_results = NewResults(0)
    /\ eval_pc = "off"

NoQuestion == [llm |-> FALSE, index |-> FALSE, relevant_docs |-> <<>>,
               reply |-> [raised |-> FALSE, val |-> "none"]]

DocOff ==
    /\ doc_input = NoQuestion
    /\ doc_answer = [raised |-> FALSE, val |-> "none"]
    /\ doc_pc = "off"

UnitsOff ==
    /\ IndexOff
    /\ CalcOff
    /\ ToolsOff
    /\ EvalOff
    /\ DocOff

Init ==
    /\ ControllerInit
    /\ FbOff
    /\ UnitsOff

\* process_query is called with one of `queries`: the initial state is built
\* and the workflow invoked.
Call(r, queries) ==
    /\ pc[r] = "idle"
    /\ \E query \in queries :
         /\ state' = [state EXCEPT ![state_owner(r)] = initial_state(query)]
         /\ asked' = [asked EXCEPT ![r] = query]
    /\ pc' = [pc EXCEPT ![r] = "start"]
    /\ UNCHANGED <<node, log_data, result, ran, router_reply, handler_failed,
                   write_outcome, nlogged, handler_call, attempts>>
    /\ UNCHANGED envVars
    /\ UNCHANGED fbVars
    /\ UNCHANGED unitVars

\* Calls that follow one another: a call starts when the one before it has
\* returned.
ProcessQuery(r) ==
    /\ r > 1 => pc[r - 1] = "returned"
    /\ Call(r, DispatchQueries)

\* The router node: one oracle call, answered by one of `replies`, then all of
\* route_query.
RouterOn(r, replies) ==
    /\ pc[r] = "start"
    /\ \E reply \in replies :
         /\ state' = [state EXCEPT ![r] = route_query(state[r], reply)]
         /\ router_reply' = [router_reply EXCEPT ![r] = reply]
    /\ ran' = [ran EXCEPT ![r] = Append(ran[r], "router")]
    /\ attempts' = [attempts EXCEPT ![r].router = @ + 1]
    /\ pc' = [pc EXCEPT ![r] = "classified"]
    /\ UNCHANGED <<node, log_data, result, handler_failed, write_outcome,
                   nlogged, asked, handler_call>>
    /\ UNCHANGED envVars
    /\ UNCHANGED fbVars
    /\ UNCHANGED unitVars

Router(r) ==
    /\ r \in Reqs
    /\ RouterOn(r, RouterReplies)

\* The conditional edge: determine_route's key is looked up in the mapping; a
\* key the mapping lacks makes the graph run raise, which process_query's
\* outermost except turns into the error dict.
ConditionalEdge(r) ==
    /\ pc[r] = "classified"
    /\ IF determine_route(state[r]) \in valid_routes
       THEN /\ node' = [node EXCEPT ![r] = path_map(determine_route(state[r]))]
            /\ pc' = [pc EXCEPT ![r] = "dispatched"]
            /\ UNCHANGED result
       ELSE /\ result' = [result EXCEPT ![r] = error_result("KeyError")]
            /\ pc' = [pc EXCEPT ![r] = "returned"]
            /\ UNCHANGED node
    /\ UNCHANGED <<state, log_data, ran, router_reply, handler_failed,
                   write_outcome, nlogged, asked, handler_call, attempts>>
    /\ UNCHANGED envVars
    /\ UNCHANGED fbVars
    /\ UNCHANGED unitVars

\* A graph whose handler nodes have their edge to the router instead of END.
after_handler_to_router == "start"

\* Every handler node is followed by the edge to END.
after_handler == "done"

\* What every handler node does to the bookkeeping of the call: `call` is what
\* its tool call gave, `tries` the oracle or network calls the tool made.
HandlerDone(r, n, st, failed, call, tries) ==
    /\ state' = [state EXCEPT ![r] = st]
    /\ ran' = [ran EXCEPT ![r] = Append(ran[r], n)]
    /\ handler_failed' = [handler_failed EXCEPT ![r] = failed]
    /\ handler_call' = [handler_call EXCEPT ![r] = call]
    /\ attempts' = [attempts EXCEPT ![r].handler = @ + tries]
    /\ pc' = [pc EXCEPT ![r] = after_handler]
    /\ UNCHANGED <<node, log_data, result, router_reply, write_outcome, nlogged,
                   asked>>
    /\ UNCHANGED envVars
    /\ UNCHANGED fbVars
    /\ UNCHANGED unitVars

WebSearchNode(r) ==
    /\ pc[r] = "dispatched"
    /\ node[r] = "web_search"
    /\ \E outcome \in WebOutcomes :
         HandlerDone(r, "web_search",
                     use_web_search(state[r], search(serper_key, outcome)),
                     ~serper_key \/ outcome.kind \in
                         {"timeout", "request_error", "unexpected_error"},
                     search(serper_key, outcome),
                     search_attempts(serper_key, outcome))

CalculatorNode(r) ==
    /\ pc[r] = "dispatched"
    /\ node[r] = "calculator"
    /\ \E outcome \in {calculate_outcome(state[r].query)} :
         HandlerDone(r, "calculator",
                     use_calculator(state[r], Response(outcome)),
                     outcome.kind = "error",
                     Response(outcome), 0)

MathSolverNode(r) ==
    /\ pc[r] = "dispatched"
    /\ node[r] = "math_solver"
    /\ \E outcome \in OracleOutcomes :
         HandlerDone(r, "math_solver",
                     use_math_solver(state[r], solve(math_llm, outcome)),
                     ~math_llm \/ outcome.kind = "error",
                     solve(math_llm, outcome),
                     solve_attempts(math_llm, outcome))

DocumentQANode(r) ==
    /\ pc[r] = "dispatched"
    /\ node[r] = "document_qa"
    /\ \E outcome \in DocOutcomes :
         HandlerDone(r, "document_qa",
                     use_document_qa(state[r], answer_question(outcome)),
                     outcome.kind \in {"no_index", "error"},
                     answer_question(outcome),
                     answer_attempts(outcome))

\* The general_chat node: one call of llm_powerful, answered by one of
\* `replies`.
GeneralChatOn(r, replies) ==
    /\ pc[r] = "dispatched"
    /\ node[r] = "general_chat"
    /\ \E reply \in replies :
         HandlerDone(r, "general_chat",
                     use_general_chat(state[r], reply), reply.raised, reply, 1)

GeneralChatNode(r) ==
    /\ r \in Reqs
    /\ GeneralChatOn(r, ChatReplies)

\* self.app.invoke raises before the workflow has ended: the outermost except
\* of process_query returns the error dict; nothing is logged.
InvokeRaises(r) ==
    /\ pc[r] \in {"start", "classified", "dispatched"}
    /\ \E msg \in ExcMessages :
         result' = [result EXCEPT ![r] = error_result(msg)]
    /\ pc' = [pc EXCEPT ![r] = "returned"]
    /\ UNCHANGED <<state, node, log_data, ran, router_reply, handler_failed,
                   write_outcome, nlogged, asked, handler_call, attempts>>
    /\ UNCHANGED envVars
    /\ UNCHANGED fbVars
    /\ UNCHANGED unitVars

\* log_interaction, first half: log_data is built with the clock's timestamp.
LogInteraction(r) ==
    /\ pc[r] = "done"
    /\ log_data' = [log_data EXCEPT ![r] = build_log_data(state[r], today)]
    /\ pc' = [pc EXCEPT ![r] = "logging"]
    /\ UNCHANGED <<state, node, result, ran, router_reply, handler_failed,
                   write_outcome, nlogged, asked, handler_call, attempts>>
    /\ UNCHANGED envVars
    /\ UNCHANGED fbVars
    /\ UNCHANGED unitVars

\* Complete records among the lines `after` has beyond those of `before`.
NewRecords(before, after) ==
    Cardinality({i \in (Len(before) + 1)..Len(after) : after[i].kind = "record"})

\* log_interaction, second half, and the return: the clock is read again for
\* the file name, the line is appended (a failure is logged and swallowed),
\* and process_query returns the dict of the final state.
WriteAndReturn(r) ==
    /\ pc[r] = "logging"
    /\ \E outcome \in WriteOutcomes :
         LET file == append_line(logs[today], log_data[r], outcome)
         IN  /\ logs' = [logs EXCEPT ![today] = file]
             /\ nlogged' = [nlogged EXCEPT ![r] =
                               nlogged[r] + NewRecords(logs[today], file)]
             /\ write_outcome' = [write_outcome EXCEPT ![r] = outcome]
    /\ result' = [result EXCEPT ![r] = final_result(state[r])]
    /\ pc' = [pc EXCEPT ![r] = "returned"]
    /\ UNCHANGED <<state, node, log_data, ran, router_reply, handler_failed,
                   asked, handler_call, attempts>>
    /\ UNCHANGED <<today, serper_key, math_llm, stats>>
    /\ UNCHANGED fbVars
    /\ UNCHANGED unitVars

\* The clock passes midnight.  Only the days the two clock reads of
\* log_interaction see matter, so midnight is taken when a call is about to
\* make one of them.
Midnight ==
    /\ today < MaxDay
    /\ \E r \in DOMAIN pc : pc[r] \in {"done", "logging"}
    /\ today' = today + 1
    /\ UNCHANGED reqVars
    /\ UNCHANGED <<logs, serper_key, math_llm, stats>>
    /\ UNCHANGED fbVars
    /\ UNCHANGED unitVars

\* The steps of one call that the program takes by itself once the call is
\* made.
Step(r) ==
    \/ Router(r)
    \/ ConditionalEdge(r)
    \/ WebSearchNode(r)
    \/ CalculatorNode(r)
    \/ MathSolverNode(r)
    \/ DocumentQANode(r)
    \/ GeneralChatNode(r)
    \/ LogInteraction(r)
    \/ WriteAndReturn(r)

Next ==
    \/ \E r \in Reqs : ProcessQuery(r)
    \/ \E r \in Reqs : Step(r)
    \/ \E r \in Reqs : InvokeRaises(r)
    \/ Midnight

Spec == Init /\ [][Next]_vars

\* Every oracle, network and file call returns or raises (none blocks for
\* ever), so a call that was made keeps taking its steps.
FairSpec == Spec /\ \A r \in Reqs : WF_vars(Step(r))

\* ------------------------------------------------- the fallback on its own
FbInit ==
    /\ ControllerInit
    /\ UnitsOff
    /\ fbQuery \in Queries
    /\ fbLabels = [given |-> <<>>, upper |-> <<>>, lower |-> <<>>]
    /\ fbPhase = "input"

\* _fallback_routing applied to the query, to query.upper() and to
\* query.lower().
FbClassify ==
    /\ fbPhase = "input"
    /\ fbLabels' = [given |-> fallback_routing(fbQuery),
                    upper |-> fallback_routing(Upper(fbQuery)),
                    lower |-> fallback_routing(Lower(fbQuery))]
    /\ fbPhase' = "labelled"
    /\ UNCHANGED fbQuery
    /\ UNCHANGED reqVars
    /\ UNCHANGED envVars
    /\ UNCHANGED unitVars

FbNext == FbClassify

FallbackSpec == FbInit /\ [][FbNext]_vars

\* ------------------------------------------------------- concurrent calls
\* Several process_query calls run at once on one controller, and
\* get_routing_stats is called at any moment.
Callers == 1..NumCallers

ConcQueries == {Q_sum, Q_empty}

ConcRouterReplies ==
    {[raised |-> FALSE, content |-> general_chat, msg |-> ""],
     [raised |-> TRUE, content |-> <<>>, msg |-> ""]}

ConcChatReplies == {Ret("Hello! How can I help?"), Raise("Connection error.")}

\* A line that json.loads accepts: a complete record that does not follow, on
\* the same physical line, a fragment left by a failed write.
Decodable(file, i) ==
    /\ file[i].kind = "record"
    /\ i > 1 => file[i - 1].kind /= "torn"

\* get_routing_stats: the routing_decision counts of the decodable lines of
\* all daily files; lines that do not decode are skipped.
get_routing_stats(files) ==
    [label \in valid_routes |->
        Cardinality({e \in UNION {{<<d, i>> : i \in 1..Len(files[d])} : d \in Days} :
                        /\ Decodable(files[e[1]], e[2])
                        /\ files[e[1]][e[2]].rec.routing_decision = label})]

\* The keys of the dict get_routing_stats returns: the routing_decision of
\* every line that decodes.
routing_stats_keys(files) ==
    {files[d][i].rec.routing_decision :
        <<d, i>> \in {e \in UNION {{<<d, i>> : i \in 1..Len(files[d])} : d \in Days} :
                        Decodable(files[e[1]], e[2])}}

GetRoutingStats ==
    /\ stats' = get_routing_stats(logs)
    /\ UNCHANGED reqVars
    /\ UNCHANGED <<logs, today, serper_key, math_llm>>
    /\ UNCHANGED fbVars
    /\ UNCHANGED unitVars

\* The concurrent calls reach the calculator and general chat only, so the
\* web search key plays no part.
ConcInit ==
    /\ ControllerInitFor(Callers)
    /\ serper_key
    /\ FbOff
    /\ UnitsOff

ConcCall(r) == Call(r, ConcQueries)

ConcRouter(r) ==
    /\ r \in Callers
    /\ RouterOn(r, ConcRouterReplies)

ConcGeneralChat(r) ==
    /\ r \in Callers
    /\ GeneralChatOn(r, ConcChatReplies)

ConcStep(r) ==
    \/ ConcCall(r)
    \/ ConcRouter(r)
    \/ ConditionalEdge(r)
    \/ CalculatorNode(r)
    \/ ConcGeneralChat(r)
    \/ LogInteraction(r)
    \/ WriteAndReturn(r)

\* The clock passes midnight between calls: after some call has returned and
\* while none stands between the two clock reads of log_interaction (that
\* case is Midnight's).
ConcMidnight ==
    /\ today < MaxDay
    /\ \A r \in Callers : pc[r] \notin {"done", "logging"}
    /\ \E r \in Callers : pc[r] = "returned"
    /\ today' = today + 1
    /\ UNCHANGED reqVars
    /\ UNCHANGED <<logs, serper_key, math_llm, stats>>
    /\ UNCHANGED fbVars
    /\ UNCHANGED unitVars

ConcNext ==
    \/ \E r \in Callers : ConcStep(r)
    \/ ConcMidnight
    \/ GetRoutingStats

ConcSpec == ConcInit /\ [][ConcNext]_vars

\* ------------------------------------------------------ the retrieval index
\* The app rebuilds the index on its own DocumentQATool (app.py: the
\* DocumentQA of the session) while the controller dispatches document
\* questions to another DocumentQATool; the two share the snapshot on disk,
\* which FAISS keeps as two files, index.faiss and index.pkl.  An index is
\* written here as the versions of its two parts; 0 is "no file".
Versions == 1..MaxBuilds

NoIndex == [faiss |-> 0, pkl |-> 0]

IndexUnchanged(others) ==
    /\ UNCHANGED others
    /\ UNCHANGED calcVars
    /\ UNCHANGED toolVars
    /\ UNCHANGED evalVars
    /\ UNCHANGED docVars
    /\ UNCHANGED reqVars
    /\ UNCHANGED envVars
    /\ UNCHANGED fbVars

\* initialize_document_qa, first half: the new index is built from the
\* documents and assigned to self.vector_store.
BuildIndex ==
    /\ index_pc.builder = "idle"
    /\ builder_store.faiss < MaxBuilds
    /\ builder_store' = [faiss |-> builder_store.faiss + 1,
                         pkl |-> builder_store.faiss + 1]
    /\ index_pc' = [index_pc EXCEPT !.builder = "save_faiss"]
    /\ IndexUnchanged(<<disk_index, reader_store, loading, served>>)

\* save_local writes the vectors file over the one on disk ...
SaveFaiss ==
    /\ index_pc.builder = "save_faiss"
    /\ disk_index' = [disk_index EXCEPT !.faiss = builder_store.faiss]
    /\ index_pc' = [index_pc EXCEPT !.builder = "save_pkl"]
    /\ IndexUnchanged(<<builder_store, reader_store, loading, served>>)

\* ... and then the docstore file.
SavePkl ==
    /\ index_pc.builder = "save_pkl"
    /\ disk_index' = [disk_index EXCEPT !.pkl = builder_store.pkl]
    /\ index_pc' = [index_pc EXCEPT !.builder = "idle"]
    /\ IndexUnchanged(<<builder_store, reader_store, loading, served>>)

\* answer_question is dispatched: with an index in memory it goes on to the
\* search; without one it loads the snapshot if the snapshot directory
\* exists, and otherwise answers that no documents are available.
AnswerQuestion ==
    /\ index_pc.reader = "idle"
    /\ index_pc' = [index_pc EXCEPT !.reader =
                      IF reader_store /= NoIndex THEN "search"
                      ELSE IF disk_index /= NoIndex THEN "load_faiss"
                      ELSE "idle"]
    /\ IndexUnchanged(<<disk_index, builder_store, reader_store, loading, served>>)

\* load_local reads the vectors file ...
LoadFaiss ==
    /\ index_pc.reader = "load_faiss"
    /\ loading' = [loading EXCEPT !.faiss = disk_index.faiss]
    /\ index_pc' = [index_pc EXCEPT !.reader = "load_pkl"]
    /\ IndexUnchanged(<<disk_index, builder_store, reader_store, served>>)

\* ... and then the docstore file; a missing file makes it raise, which
\* answer_question answers with "No documents available"; otherwise what was
\* read becomes self.vector_store.
LoadPkl ==
    /\ index_pc.reader = "load_pkl"
    /\ IF disk_index.pkl = 0
       THEN /\ index_pc' = [index_pc EXCEPT !.reader = "idle"]
            /\ UNCHANGED reader_store
       ELSE /\ reader_store' = [faiss |-> loading.faiss, pkl |-> disk_index.pkl]
            /\ index_pc' = [index_pc EXCEPT !.reader = "search"]
    /\ loading' = NoIndex
    /\ IndexUnchanged(<<disk_index, builder_store, served>>)

\* similarity_search on self.vector_store, and the answer.
SimilaritySearch ==
    /\ index_pc.reader = "search"
    /\ served' = served \cup {reader_store}
    /\ index_pc' = [index_pc EXCEPT !.reader = "idle"]
    /\ IndexUnchanged(<<disk_index, builder_store, reader_store, loading>>)

\* The controller is constructed anew (a new session): its DocumentQATool
\* starts without an index in memory.
NewController ==
    /\ index_pc.reader = "idle"
    /\ reader_store /= NoIndex
    /\ reader_store' = NoIndex
    /\ IndexUnchanged(<<disk_index, builder_store, loading, index_pc, served>>)

IndexInit ==
    /\ ControllerInit
    /\ FbOff
    /\ UnitsOff

IndexNext ==
    \/ BuildIndex
    \/ SaveFaiss
    \/ SavePkl
    \/ AnswerQuestion
    \/ LoadFaiss
    \/ LoadPkl
    \/ SimilaritySearch
    \/ NewController

IndexSpec == IndexInit /\ [][IndexNext]_vars

\* ------------------------------------------------- the calculator on its own
\* calculate is called on one expression text.  The texts are the examples
\* the tool itself lists ("2 + 3 * 4", "sqrt(16) + 5", "10% of 150") with
\* their numbers drawn from Operands, quotients with and without a zero
\* divisor, and texts that probe the node whitelist of _eval_node.
Operands == (0..MaxOperand) \cup {10 * k : k \in 1..MaxOperand}

Input(shape, a, b, c, text) ==
    [shape |-> shape, a |-> a, b |-> b, c |-> c, text |-> text]

SumProducts ==
    {Input("sum_product", a, b, c,
           DigitsOfNat(a) \o <<"+">> \o DigitsOfNat(b) \o <<"*">> \o DigitsOfNat(c)) :
        a \in Operands, b \in Operands, c \in Operands}

SqrtSquares ==
    {Input("sqrt_square", n, k, 0,
           <<"s", "q", "r", "t", "(">> \o DigitsOfNat(n) \o <<"*">> \o DigitsOfNat(n)
             \o <<")", "+">> \o DigitsOfNat(k)) :
        n \in Operands, k \in Operands}

PercentsOf ==
    {Input("percent_of", x, y, 0,
           DigitsOfNat(x) \o <<"%", " ", "o", "f", " ">> \o DigitsOfNat(y)) :
        x \in Operands, y \in Operands}

Quotients ==
    {Input("quotient", a, b, 0, DigitsOfNat(a) \o <<"/">> \o DigitsOfNat(b)) :
        a \in Operands, b \in Operands}

ZeroQuotients ==
    {Input("zero_quotient", a, b, 0,
           DigitsOfNat(a) \o <<"/", "(">> \o DigitsOfNat(b) \o <<"-">> \o DigitsOfNat(b)
             \o <<")">>) :
        a \in Operands, b \in Operands}

\* "sqrt(16)+5" and "20% of 150", with the value each stands for.
References ==
    {Input("reference", 9, 0, 0, <<"s", "q", "r", "t", "(", "1", "6", ")", "+", "5">>),
     Input("reference", 30, 0, 0, <<"2", "0", "%", " ", "o", "f", " ", "1", "5", "0">>)}

WhitelistProbes ==
    { <<"_", "_", "i", "m", "p", "o", "r", "t", "_", "_", "(", "'", "o", "s", "'", ")">>,
      <<"(", "1", ")", ".", "r", "e", "a", "l">>,
      <<"p", "i", "[", "0", "]">>,
      <<"1", "<", "2">>,
      <<"2", "/", "/", "3">>,
      <<"o", "p", "e", "n", "(", "'", "f", "'", ")">>,
      <<"x">>,
      <<"r", "o", "u", "n", "d", "(", "2", ".", "5", ",", "n", "d", "i", "g", "i", "t", "s", "=", "_", "_", "i", "m", "p", "o", "r", "t", "_", "_", "(", "'", "o", "s", "'", ")", ")">>,
      <<"1", "/", "0", "+", "_", "_", "i", "m", "p", "o", "r", "t", "_", "_", "(", "'", "o", "s", "'", ")">>,
      <<"a", "b", "s", "(", "1", ",", "x", "=", "2", ")">>,
      <<"'", "a", "b", "c", "'">>,
      <<"s", "q", "r", "t">>,
      <<"a", "b", "s", "(", "-", "3", ")">>,
      <<"p", "i">>,
      <<"2", "+">>,
      <<"m", "a", "x", "(", "1", ",", "2", ")">>,
      <<"-", "7">>,
      <<"1", "/", "0", ".", "0">> }

\* The callables of safe_functions (pi and e are numbers).
Callables == safe_function_names \ safe_constants

\* "f(a)" for every callable f of the whitelist.
Calls ==
    {Input("call", a, 0, 0, f \o <<"(">> \o DigitsOfNat(a) \o <<")">>) :
        f \in Callables, a \in 0..MaxOperand}

CalcInputs ==
    SumProducts \cup SqrtSquares \cup PercentsOf \cup Quotients \cup ZeroQuotients
      \cup References \cup {Input("probe", 0, 0, 0, text) : text \in WhitelistProbes}
      \cup Calls

CalcInit ==
    /\ ControllerInit
    /\ FbOff
    /\ IndexOff
    /\ ToolsOff
    /\ EvalOff
    /\ DocOff
    /\ calc_input \in CalcInputs
    /\ calc_outcome = NoOutcome
    /\ calc_pc = "asked"

Calculate ==
    /\ calc_pc = "asked"
    /\ calc_outcome' = calculate_outcome(calc_input.text)
    /\ calc_pc' = "answered"
    /\ UNCHANGED calc_input
    /\ UNCHANGED <<reqVars, envVars, fbVars, indexVars, toolVars, evalVars, docVars>>

CalcNext == Calculate

CalcSpec == CalcInit /\ [][CalcNext]_vars

\* ---------------------------------------------------- the tools on their own
\* WebSearchTool and MathSolverTool are built from the environment, which
\* may or may not hold their credential, and then called; each takes its
\* credential once, when it is built.
ToolsUnchanged ==
    UNCHANGED <<reqVars, envVars, fbVars, indexVars, calcVars, evalVars, docVars>>

Built(made) ==
    [built |-> IF made.raised THEN "failed" ELSE "yes", credential |-> made.credential]

\* A call of a tool: the credential the tool held, what came back, and the
\* external calls made for it.
ToolCall(name, credential, reply, tries) ==
    [tool |-> name, credential |-> credential, reply |-> reply, attempts |-> tries]

\* The environment is set up before the process starts.
ToolInit ==
    /\ ControllerInit
    /\ FbOff
    /\ IndexOff
    /\ CalcOff
    /\ EvalOff
    /\ DocOff
    /\ environ \in [serper : BOOLEAN, groq : BOOLEAN]
    /\ tool = [web_search |-> NotBuilt, math_solver |-> NotBuilt]
    /\ tool_calls = <<>>

NewWebSearchTool ==
    /\ tool.web_search.built = "no"
    /\ tool' = [tool EXCEPT !.web_search = Built(WebSearchTool_init(environ.serper))]
    /\ UNCHANGED <<environ, tool_calls>>
    /\ ToolsUnchanged

NewMathSolverTool ==
    /\ tool.math_solver.built = "no"
    /\ tool' = [tool EXCEPT !.math_solver = Built(MathSolverTool_init(environ.groq))]
    /\ UNCHANGED <<environ, tool_calls>>
    /\ ToolsUnchanged

Search ==
    /\ tool.web_search.built = "yes"
    /\ Len(tool_calls) < MaxCalls
    /\ \E outcome \in WebOutcomes :
         tool_calls' =
             Append(tool_calls,
                    ToolCall("web_search", tool.web_search.credential,
                             search(tool.web_search.credential, outcome),
                             search_attempts(tool.web_search.credential, outcome)))
    /\ UNCHANGED <<environ, tool>>
    /\ ToolsUnchanged

Solve ==
    /\ tool.math_solver.built = "yes"
    /\ Len(tool_calls) < MaxCalls
    /\ \E outcome \in OracleOutcomes :
         tool_calls' =
             Append(tool_calls,
                    ToolCall("math_solver", tool.math_solver.credential,
                             solve(tool.math_solver.credential, outcome),
                             solve_attempts(tool.math_solver.credential, outcome)))
    /\ UNCHANGED <<environ, tool>>
    /\ ToolsUnchanged

ToolNext ==
    \/ NewWebSearchTool
    \/ NewMathSolverTool
    \/ Search
    \/ Solve

ToolSpec == ToolInit /\ [][ToolNext]_vars

\* ------------------------------------------------- the evaluation harnesses
\* run_gsm8k_evaluation and run_lama_evaluation have the same loop and the
\* same arithmetic; they differ in how an answer is judged, which the model
\* takes from the item: what the stubbed agent does on it.
\*   "correct", "wrong":  process_query returns and the answer is judged so;
\*   "no_tool_used":      it returns an answer judged correct in a dictionary
\*                        without "tool_used";
\*   "raises":            process_query raises, or returns what the judging
\*                        cannot read (no "response", a response that is no
\*                        string).
Categories == 1..NumCategories

Replies == {"correct", "wrong", "no_tool_used", "raises"}

Items == [category : Categories, reply : Replies]

EvaluationSets == UNION {[1..n -> Items] : n \in 0..MaxItems}

\* category_performance after `category` got one more item.
Tracked(performance, category, is_correct) ==
    LET known == category \in DOMAIN performance
        before == IF known THEN performance[category]
                  ELSE [correct |-> 0, total |-> 0, accuracy |-> Float(0, 1)]
        after == [before EXCEPT !.total = @ + 1,
                                !.correct = IF is_correct THEN @ + 1 ELSE @]
    IN  [c \in (DOMAIN performance) \cup {category} |->
            IF c = category THEN after ELSE performance[c]]

Detail(item, is_correct, failed) ==
    [category |-> item.category, correct |-> is_correct, error |-> failed]

\* The body of the loop for one item: the try block up to the exception, if
\* one is raised, and then the except block, which only appends a detail.
evaluate_item(results, item) ==
    IF item.reply = "raises"
    THEN [results EXCEPT !.details = Append(@, Detail(item, FALSE, TRUE))]
    ELSE LET is_correct == item.reply \in {"correct", "no_tool_used"}
             counted ==
                 [results EXCEPT
                    !.correct_answers = IF is_correct THEN @ + 1 ELSE @,
                    !.category_performance = Tracked(@, item.category, is_correct)]
         IN  IF item.reply = "no_tool_used"
             THEN [counted EXCEPT !.details = Append(@, Detail(item, FALSE, TRUE))]
             ELSE [counted EXCEPT !.details = Append(@, Detail(item, is_correct, FALSE))]

\* After the loop: the accuracy and the category accuracies; the division by
\* a total of zero raises, and the outer except returns its own dictionary.
final_results(results) ==
    IF results.total = 0
    THEN [total |-> 0, correct_answers |-> 0, accuracy |-> Float(0, 1),
          details |-> <<>>, category_performance |-> <<>>, error |-> TRUE]
    ELSE LET performance == results.category_performance
             with_accuracy(perf) ==
                 [perf EXCEPT !.accuracy = IF perf.total > 0
                                           THEN Float(perf.correct, perf.total)
                                           ELSE Num(0)]
         IN  [results EXCEPT
                !.accuracy = Float(results.correct_answers, results.total),
                !.category_performance =
                    [c \in DOMAIN performance |-> with_accuracy(performance[c])]]

EvalUnchanged ==
    UNCHANGED <<reqVars, envVars, fbVars, indexVars, calcVars, toolVars, docVars>>

EvalInit ==
    /\ ControllerInit
    /\ FbOff
    /\ IndexOff
    /\ CalcOff
    /\ ToolsOff
    /\ DocOff
    /\ eval_set \in EvaluationSets
    /\ eval_next = 1
    /\ eval_results = NewResults(Len(eval_set))
    /\ eval_pc = "items"

EvaluateItem ==
    /\ eval_pc = "items"
    /\ eval_next <= Len(eval_set)
    /\ eval_results' = evaluate_item(eval_results, eval_set[eval_next])
    /\ eval_next' = eval_next + 1
    /\ UNCHANGED <<eval_set, eval_pc>>
    /\ EvalUnchanged

ReturnResults ==
    /\ eval_pc = "items"
    /\ eval_next > Len(eval_set)
    /\ eval_results' = final_results(eval_results)
    /\ eval_pc' = "returned"
    /\ UNCHANGED <<eval_set, eval_next>>
    /\ EvalUnchanged

EvalNext ==
    \/ EvaluateItem
    \/ ReturnResults

EvalSpec == EvalInit /\ [][EvalNext]_vars

\* ------------------------------------------- the conditional edge on its own
\* The conditional edge applied to a state as a router node may hand it over:
\* routing_decision is one of the five labels, the empty text AgentState
\* starts with, or another text that is no label.  The handler the edge
\* selects, the log write and the return follow as in a call.
EdgeKeys ==
    valid_routes \cup {<<>>, <<"u", "n", "k", "n", "o", "w", "n">>}

EdgeInit ==
    /\ \E query \in DispatchQueries, key \in EdgeKeys :
         /\ state = [r \in Reqs |->
                        IF r = 1
                        THEN [initial_state(query) EXCEPT !.routing_decision = key]
                        ELSE initial_state(<<>>)]
         /\ asked = [r \in Reqs |-> IF r = 1 THEN query ELSE <<>>]
    /\ pc = [r \in Reqs |-> IF r = 1 THEN "classified" ELSE "idle"]
    /\ ran = [r \in Reqs |-> IF r = 1 THEN <<"router">> ELSE <<>>]
    /\ node = [r \in Reqs |-> "none"]
    /\ log_data = [r \in Reqs |-> NoRecord]
    /\ result = [r \in Reqs |-> NoResult]
    /\ router_reply = [r \in Reqs |-> NoReply]
    /\ handler_failed = [r \in Reqs |-> FALSE]
    /\ write_outcome = [r \in Reqs |-> "none"]
    /\ nlogged = [r \in Reqs |-> 0]
    /\ handler_call = [r \in Reqs |-> NoCall]
    /\ attempts = [r \in Reqs |-> NoAttempts]
    /\ stats = NoStats
    /\ logs = [d \in Days |-> <<>>]
    /\ today = 1
    /\ serper_key \in BOOLEAN
    /\ math_llm = TRUE
    /\ FbOff
    /\ UnitsOff

EdgeStep(r) ==
    \/ ConditionalEdge(r)
    \/ WebSearchNode(r)
    \/ CalculatorNode(r)
    \/ MathSolverNode(r)
    \/ DocumentQANode(r)
    \/ GeneralChatNode(r)
    \/ LogInteraction(r)
    \/ WriteAndReturn(r)

EdgeNext == \E r \in Reqs : EdgeStep(r)

EdgeSpec == EdgeInit /\ [][EdgeNext]_vars

\* ------------------------------------------- a document question on its own
\* answer_question is called on a DocumentQATool with or without an LLM and
\* with or without an index; the similarity search gives up to MaxDocs
\* chunks, one of them longer than an excerpt, and the oracle answers or
\* raises.
Chunks ==
    {Doc("a.txt", <<"a", "l", "p", "h", "a">>),
     Doc("b.txt", <<"b", "e", "t", "a">>),
     Doc("b.txt", [i \in 1..(ExcerptLen + 1) |-> "x"])}

DocReplies == {Ret("The documents say so."), Raise("Connection error."), Raise("")}

DocQuestions ==
    {[llm |-> llm, index |-> index, relevant_docs |-> docs, reply |-> reply] :
        llm \in BOOLEAN, index \in BOOLEAN,
        docs \in UNION {[1..n -> Chunks] : n \in 0..MaxDocs},
        reply \in DocReplies}

DocInit ==
    /\ ControllerInit
    /\ FbOff
    /\ IndexOff
    /\ CalcOff
    /\ ToolsOff
    /\ EvalOff
    /\ doc_input \in DocQuestions
    /\ doc_answer = [raised |-> FALSE, val |-> "none"]
    /\ doc_pc = "asked"

AnswerDocQuestion ==
    /\ doc_pc = "asked"
    /\ doc_answer' = answer_with_docs(doc_input.llm, doc_input.index,
                                      doc_input.relevant_docs, doc_input.reply)
    /\ doc_pc' = "answered"
    /\ UNCHANGED doc_input
    /\ UNCHANGED <<reqVars, envVars, fbVars, indexVars, calcVars, toolVars, evalVars>>

DocNext == AnswerDocQuestion

DocSpec == DocInit /\ [][DocNext]_vars

\* ================================================================== claims
\* The signals of the fallback heuristic, as the specification names them.
HasTemporalToken(q) == AnyIn(time_indicators, Lower(q))

HasOperator(q) == AnyIn(math_operators, q)

HasComplexCue(q) == AnyIn(complex_math, Lower(q))

HasDocReference(q) == AnyIn(doc_indicators, Lower(q))

\* C6: the fallback heuristic applies its rules in the order (a) temporal
\* token -> web_search, (b) operator -> math_solver with a complex-math cue,
\* calculator without, (c) document reference -> document_qa, (d) otherwise
\* general_chat, and returns on the first match: an earlier rule wins over
\* every later one.
C6_FallbackPriority ==
    fbPhase = "labelled" =>
        LET q == fbQuery
            label == fbLabels.given
        IN  /\ HasTemporalToken(q) => label = web_search
            /\ ~HasTemporalToken(q) /\ HasOperator(q) /\ HasComplexCue(q)
                 => label = math_solver
            /\ ~HasTemporalToken(q) /\ HasOperator(q) /\ ~HasComplexCue(q)
                 => label = calculator
            /\ ~HasTemporalToken(q) /\ ~HasOperator(q) /\ HasDocReference(q)
                 => label = document_qa
            /\ ~HasTemporalToken(q) /\ ~HasOperator(q) /\ ~HasDocReference(q)
                 => label = general_chat

\* C6 witness: a query with a temporal token, an operator and a complex-math
\* cue at once was labelled web_search.
C6_Witness ==
    /\ fbPhase = "labelled"
    /\ HasTemporalToken(fbQuery)
    /\ HasOperator(fbQuery)
    /\ HasComplexCue(fbQuery)
    /\ fbLabels.given = web_search

\* C7: the fallback heuristic is case-insensitive: the upper-case form and the
\* lower-case form of a query get the label of the query.
C7_CaseInsensitive ==
    fbPhase = "labelled" =>
        /\ fbLabels.upper = fbLabels.given
        /\ fbLabels.lower = fbLabels.given

\* The handler bound to each routing label: the node of the same name.
BoundHandler(label) ==
    CASE label = web_search -> "web_search"
      [] label = calculator -> "calculator"
      [] label = math_solver -> "math_solver"
      [] label = document_qa -> "document_qa"
      [] label = general_chat -> "general_chat"
      [] OTHER -> "none"

ErrorLabel == <<"e", "r", "r", "o", "r">>

Apology == "I encountered an error processing your request: "

\* C1 as claimed: every result process_query returns has routing_decision in
\* the five labels and a non-empty tool_used.
C1_ClosedLabelEveryResult ==
    \A r \in Reqs :
        result[r].path /= "none" =>
            /\ result[r].routing_decision \in valid_routes
            /\ result[r].tool_used /= ""

\* C1 as amended: every result has a non-empty tool_used; a result that comes
\* from the workflow has routing_decision in the five labels; a result of the
\* outermost error boundary has routing_decision "error".
C1_ClosedLabelWorkflowResult ==
    \A r \in Reqs :
        result[r].path /= "none" =>
            /\ result[r].tool_used /= ""
            /\ result[r].path = "workflow"
                 => result[r].routing_decision \in valid_routes
            /\ result[r].path = "boundary"
                 => result[r].routing_decision = ErrorLabel

\* C1 witness: a workflow result whose label is valid although the oracle
\* answered with text that is no label.
C1_Witness ==
    \E r \in Reqs :
        /\ result[r].path = "workflow"
        /\ ~router_reply[r].raised
        /\ Lower(Strip(router_reply[r].content)) \notin valid_routes
        /\ result[r].routing_decision \in valid_routes
        /\ result[r].tool_used /= ""

\* C2: process_query returns a record whose response is non-empty, whatever
\* the oracle or the handler returns or raises.
C2_ResponseNeverEmpty ==
    \A r \in Reqs :
        result[r].path /= "none" =>
            /\ DOMAIN result[r] =
                 {"response", "tool_used", "routing_decision", "error", "path"}
            /\ result[r].response /= ""

\* C3: a call that completes through the workflow has run exactly one handler
\* node, the one bound to the recorded routing_decision, and tool_used names
\* that handler; no call ever runs two handlers.
C3_ExactlyOneHandler ==
    \A r \in Reqs :
        /\ Cardinality({i \in 1..Len(ran[r]) : ran[r][i] \in HandlerNodes}) <= 1
        /\ result[r].path = "workflow" =>
             \E n \in HandlerNodes :
                /\ ran[r] = <<"router", n>>
                /\ n = BoundHandler(result[r].routing_decision)
                /\ result[r].tool_used \in {ToolLabel(n), ToolLabel(n) \o " (Error)"}

\* C3 witness: a call routed by the fallback to the calculator ran the router
\* and the calculator node, and nothing else.
C3_Witness ==
    \E r \in Reqs :
        /\ result[r].path = "workflow"
        /\ router_reply[r].raised
        /\ result[r].routing_decision = calculator
        /\ ran[r] = <<"router", "calculator">>
        /\ result[r].tool_used = "Calculator"

\* The steps a call may take: start -> classified -> dispatched -> done, then
\* the logging and the return; the error boundary returns from inside the
\* workflow.
PhaseSteps ==
    { <<"idle", "start">>, <<"start", "classified">>,
      <<"classified", "dispatched">>, <<"dispatched", "done">>,
      <<"done", "logging">>, <<"logging", "returned">>,
      <<"start", "returned">>, <<"classified", "returned">>,
      <<"dispatched", "returned">> }

Finished(r) == pc[r] \in {"done", "logging", "returned"}

C5_ClassificationNeverFails ==
    \A r \in Reqs :
        pc[r] = "classified" =>
            LET reply == router_reply[r]
                normal == Lower(Strip(reply.content))
            IN  /\ ran[r] = <<"router">>
                /\ state[r].routing_decision \in valid_routes
                /\ ~reply.raised /\ normal \in valid_routes
                     => state[r].routing_decision = normal
                /\ reply.raised \/ normal \notin valid_routes
                     => state[r].routing_decision = fallback_routing(state[r].query)

\* C5 witness: the oracle answered with the empty completion and the request
\* was classified by the fallback as math_solver.
C5_Witness ==
    \E r \in Reqs :
        /\ pc[r] = "classified"
        /\ ~router_reply[r].raised
        /\ router_reply[r].msg = ""
        /\ router_reply[r].content = <<>>
        /\ state[r].routing_decision = math_solver
        /\ state[r].routing_decision = fallback_routing(state[r].query)

\* C8: whenever the selected handler fails, tool_used is the handler's label
\* with the "(Error)" marker, and tool_used carries no marker only when the
\* handler succeeded.
C8_FailureIsMarked ==
    \A r \in Reqs :
        result[r].path = "workflow" =>
            (handler_failed[r]
               <=> result[r].tool_used = ToolLabel(node[r]) \o " (Error)")

\* C9: a call that returned without the workflow having run to its end (the
\* failure escaped it) returned the error dict: the apology with the
\* diagnostic, tool_used "Error", the diagnostic in error.
C9_BoundaryCatches ==
    \A r \in Reqs :
        /\ pc[r] = "returned" /\ Len(ran[r]) < 2 => result[r].path = "boundary"
        /\ result[r].path = "boundary" =>
             /\ pc[r] = "returned"
             /\ result[r].tool_used = "Error"
             /\ result[r].response = Apology \o result[r].error
             /\ result[r].error \in ExcMessages

\* C9 witness: the graph run raised after the router had classified the
\* request, and the call returned the error dict.
C9_Witness ==
    \E r \in Reqs :
        /\ pc[r] = "returned"
        /\ ran[r] = <<"router">>
        /\ result[r].path = "boundary"
        /\ result[r].tool_used = "Error"
        /\ result[r].error = "Connection error."

RecordOf(r, day) ==
    [kind |-> "record",
     rec |-> [timestamp |-> day, query |-> state[r].query,
              routing_decision |-> result[r].routing_decision,
              tool_used |-> result[r].tool_used,
              response_length |-> Len(result[r].response),
              error |-> result[r].error]]

IsPrefix(s, t) == Len(s) <= Len(t) /\ SubSeq(t, 1, Len(s)) = s

\* C11: the interaction log is append-only: across every step of process_query
\* calls and get_routing_stats calls, the contents each daily file had before
\* the step are a prefix of its contents after it.
C11_AppendOnly ==
    [][\A d \in Days : IsPrefix(logs[d], logs'[d])]_vars

\* C11 witness: calls have appended to the files of two days and
\* get_routing_stats has read both records.
C11_Witness ==
    /\ \E d, e \in Days : d /= e /\ Len(logs[d]) >= 1 /\ Len(logs[e]) >= 1
    /\ stats[calculator] + stats[general_chat] = 2

\* ------------------------------------------------------- concurrent calls
\* What a call's result is when it is computed from nothing but the query the
\* caller passed and the answers the oracle and the handler gave to that call.
OwnResult(query, reply, call) ==
    LET routed == route_query(initial_state(query), reply)
    IN  final_result(use_tool(routed, BoundHandler(routed.routing_decision), call))

C13_AtomicAppend ==
    \A d \in Days :
        \A i \in 1..Len(logs[d]) :
            /\ logs[d][i].kind = "record"
            /\ \E r \in Callers : logs[d][i].rec = log_data[r]

\* ------------------------------------------------------ the retrieval index
\* C14: a rebuild of the index that runs concurrently with a document_qa
\* dispatch never lets the read observe a half-written index: every
\* similarity search is served from one whole version of the index.
C14_NoHalfWrittenIndex ==
    \A index \in served : index.faiss = index.pkl

RECURSIVE OutsideWhitelist(_)
OutsideWhitelist(n) ==
    CASE n.type = "Constant" -> FALSE
      [] n.type = "Name" -> n.id \notin safe_function_names
      [] n.type = "BinOp" ->
           \/ n.op \notin safe_operations
           \/ OutsideWhitelist(n.left)
           \/ OutsideWhitelist(n.right)
      [] n.type = "UnaryOp" -> OutsideWhitelist(n.operand)
      [] n.type = "Call" ->
           \/ ~(n.func.type = "Name" /\ n.func.id \in safe_function_names)
           \/ \E i \in 1..Len(n.args) : OutsideWhitelist(n.args[i])
           \/ \E i \in 1..Len(n.keywords) : OutsideWhitelist(n.keywords[i].value)
      [] OTHER -> TRUE

\* C16: for every expression whose syntax tree has a construct outside the
\* whitelist, calculate returns an "unsupported" failure, and nothing but
\* the safe functions is ever executed, also when the text does not parse
\* and the eval fallback is taken.
C16_WhitelistEnforced ==
    calc_pc = "answered" =>
        LET tree == ast_parse(preprocess_expression(calc_input.text))
        IN  /\ calc_outcome.called \subseteq (safe_function_names \ safe_constants)
            /\ (tree.ok /\ OutsideWhitelist(tree.node)) =>
                   (calc_outcome.kind = "error" /\ calc_outcome.hint = "unsupported")

\* C17: whatever the text, calculate gives either a number rendered as a
\* calculation result or a structured error message; a value that is no
\* number is never reported as a completed calculation.
C17_ResultOrError ==
    calc_pc = "answered" => calc_outcome.kind \in {"result", "error"}

\* The decimal text of p/100 with the trailing zeros and a trailing point
\* dropped.
HundredthsText(p) ==
    LET whole == DigitsOfNat(p \div 100)
        cents == p % 100
    IN  IF cents = 0 THEN Cat(whole)
        ELSE IF cents % 10 = 0 THEN Cat(whole \o <<".">> \o DigitsOfNat(cents \div 10))
        ELSE Cat(whole \o <<".">> \o PadZeros(DigitsOfNat(cents), 2))

\* C18: "a+b*c" gives a+(b*c), "sqrt(n*n)+k" gives n+k, "X% of Y" gives
\* X*Y/100, each rendered without a decimal point when it is an integer; the
\* reference inputs give 9 and 30; a division by zero gives the
\* division-by-zero error message, not a result.
C18_ReferenceArithmetic ==
    calc_pc = "answered" =>
        LET i == calc_input
            o == calc_outcome
        IN  /\ i.shape = "sum_product" =>
                 (o.kind = "result" /\ o.text = Cat(DigitsOfNat(i.a + (i.b * i.c))))
            /\ i.shape = "sqrt_square" =>
                 (o.kind = "result" /\ o.text = Cat(DigitsOfNat(i.a + i.b)))
            /\ i.shape = "percent_of" =>
                 (o.kind = "result" /\ o.text = HundredthsText(i.a * i.b))
            /\ i.shape = "reference" =>
                 (o.kind = "result" /\ o.text = Cat(DigitsOfNat(i.a)))
            /\ (i.shape = "zero_quotient" \/ (i.shape = "quotient" /\ i.b = 0)) =>
                 (o.kind = "error" /\ o.text = "division by zero"
                    /\ o.hint = "division by zero")

\* "2+3*4" was answered with 14, "20% of 30" with 6 and "10/0" was asked.
C18_Witness ==
    /\ calc_pc = "answered"
    /\ \/ (calc_input.text = <<"2", "+", "3", "*", "4">> /\ calc_outcome.text = "14")
       \/ (calc_input.text = <<"2", "0", "%", " ", "o", "f", " ", "1", "5", "0">> /\ calc_outcome.text = "30")
       \/ (calc_input.text = <<"1", "0", "/", "0">> /\ calc_outcome.kind = "error")

\* ------------------------------------------------------- absent credentials
\* C19: a tool whose credential is absent is still built, and every call of
\* it returns the "not available" text, without the external call and
\* without raising.
C19_UnavailableNotCrash ==
    /\ (tool.web_search.built /= "no" /\ ~environ.serper) =>
           tool.web_search = [built |-> "yes", credential |-> FALSE]
    /\ (tool.math_solver.built /= "no" /\ ~environ.groq) =>
           tool.math_solver = [built |-> "yes", credential |-> FALSE]
    /\ \A i \in 1..Len(tool_calls) :
         ~tool_calls[i].credential =>
             /\ tool_calls[i].attempts = 0
             /\ tool_calls[i].reply =
                    IF tool_calls[i].tool = "web_search"
                    THEN Ret("Web search is not available (API key not configured)")
                    ELSE Ret("Math solver is not available (LLM not configured)")

\* Both tools were built without their credential and each was called, the
\* search more than once.
C19_Witness ==
    /\ ~environ.serper
    /\ ~environ.groq
    /\ tool.web_search.built = "yes"
    /\ Len(tool_calls) = 3
    /\ tool_calls[1].tool = "web_search"
    /\ tool_calls[2].tool = "math_solver"
    /\ tool_calls[3].tool = "web_search"

\* --------------------------------------------------- evaluation aggregation
RECURSIVE SumOf(_, _, _)
SumOf(performance, categories, field) ==
    IF categories = {} THEN 0
    ELSE LET c == CHOOSE x \in categories : TRUE
         IN  performance[c][field] + SumOf(performance, categories \ {c}, field)

\* The number `accuracy` is the quotient correct/total.
IsQuotient(accuracy, correct, total) ==
    accuracy.kind = "num" /\ accuracy.n * total = correct * accuracy.d

\* C20: in the returned results every category's accuracy is its correct
\* over its total, correct_answers is the sum of the categories' correct
\* counts, the categories' totals add up to the number of evaluated items,
\* and the accuracy is correct_answers over the total.
C20_CategoryAggregation ==
    eval_pc = "returned" =>
        LET r == eval_results
            performance == r.category_performance
        IN  /\ \A c \in DOMAIN performance :
                 IsQuotient(performance[c].accuracy, performance[c].correct,
                            performance[c].total)
            /\ r.correct_answers = SumOf(performance, DOMAIN performance, "correct")
            /\ SumOf(performance, DOMAIN performance, "total") = Len(eval_set)
            /\ IsQuotient(r.accuracy, r.correct_answers, r.total)

\* ------------------------------------------------------ routing statistics
\* The complete records with routing_decision `label` that calls have
\* appended to the daily files.
RecordsWith(files, label) ==
    Cardinality({e \in UNION {{<<d, i>> : i \in 1..Len(files[d])} : d \in Days} :
                    /\ files[e[1]][e[2]].kind = "record"
                    /\ files[e[1]][e[2]].rec.routing_decision = label})

\* C21: at every moment a get_routing_stats call returns, for each label,
\* the number of records that calls have logged with that routing_decision
\* (so that n further logged requests raise the sum of the counts by n).
C21_StatsCountEveryRecord ==
    \A label \in valid_routes :
        get_routing_stats(logs)[label] = RecordsWith(logs, label)

\* ------------------------------------------------- assignments of the state
\* C22: within one request routing_decision is assigned by the router only
\* and never changed afterwards, tool_used and response are assigned by the
\* handler only, each node runs once, and query is never modified: the
\* handler works on the query text the caller passed.
C22_FieldsAssignedOnce ==
    [][\A r \in Reqs :
          /\ state'[r].routing_decision /= state[r].routing_decision =>
                 pc[r] = "start" /\ pc'[r] = "classified"
          /\ state'[r].tool_used /= state[r].tool_used =>
                 pc[r] = "dispatched" /\ pc'[r] = "done"
          /\ state'[r].response /= state[r].response =>
                 pc[r] = "dispatched" /\ pc'[r] = "done"
          /\ pc[r] /= "idle" => state'[r].query = asked[r]
          /\ pc'[r] = "classified" => ran'[r] = <<"router">>
          /\ pc'[r] \in {"done", "logging"} =>
                 /\ Len(ran'[r]) = 2
                 /\ ran'[r][1] = "router"
                 /\ ran'[r][2] \in HandlerNodes]_vars

\* C22 witness: a call whose routing oracle raised and whose handler failed
\* has returned: the fallback's decision, the marked label and the failure
\* text were each assigned, on a query with capitals.
C22_Witness ==
    \E r \in Reqs :
        /\ result[r].path = "workflow"
        /\ router_reply[r].raised
        /\ handler_failed[r]
        /\ asked[r] /= Lower(asked[r])
        /\ state[r].query = asked[r]
        /\ result[r].routing_decision \in valid_routes
        /\ result[r].tool_used /= ""
        /\ result[r].response /= ""

\* ------------------------------------------------------------ the error field
\* The classification failed: the routing oracle raised, or its completion,
\* stripped and lower-cased, is none of the labels.
ClassificationFailed(reply) ==
    reply.raised \/ Lower(Strip(reply.content)) \notin valid_routes

\* C23: the error field of a result of the workflow is empty exactly when
\* neither the classification nor the handler failed; a failed
\* classification still gives a valid label; and when both failed the error
\* is the handler's diagnostic.
C23_ErrorIffFailure ==
    \A r \in Reqs :
        result[r].path = "workflow" =>
            /\ result[r].error = "" <=>
                   ~ClassificationFailed(router_reply[r]) /\ ~handler_failed[r]
            /\ ClassificationFailed(router_reply[r]) =>
                   result[r].routing_decision \in valid_routes
            /\ ClassificationFailed(router_reply[r]) /\ handler_call[r].raised =>
                   result[r].error = handler_call[r].val

\* ------------------------------------------------------------ temporal tokens
\* The query holds a 4-digit year: four digits in a row that are not part of
\* a longer number.
HasFourDigitYear(q) ==
    \E i \in 1..(Len(q) - 3) :
        /\ \A k \in i..(i + 3) : q[k] \in Digits
        /\ i > 1 => q[i - 1] \notin Digits
        /\ i + 4 <= Len(q) => q[i + 4] \notin Digits

\* C24: the fallback heuristic returns web_search for every query that holds
\* a temporal or news token, any 4-digit year being one, whatever else the
\* query holds.
C24_AnyYearIsTemporal ==
    fbPhase = "labelled" =>
        (HasTemporalToken(fbQuery) \/ HasFourDigitYear(fbQuery)
             => fbLabels.given = web_search)

C26_CallsPreserved ==
    (calc_pc = "answered" /\ calc_input.shape = "call") =>
        \E f \in Callables :
            /\ calc_input.text = f \o <<"(">> \o DigitsOfNat(calc_input.a) \o <<")">>
            /\ preprocess_expression(calc_input.text) = calc_input.text
            /\ ast_parse(calc_input.text).node =
                   CallNode(Name(f), <<Constant("num", DigitsOfNat(calc_input.a))>>, <<>>)
            /\ f \in calc_outcome.called

\* ------------------------------------------------- document answer fallback
\* C27: when chunks were retrieved and the oracle call that generates the
\* answer fails, answer_question returns the excerpt answer built from the
\* retrieved documents, the one it gives without an LLM, formatted with its
\* sources; it does not return an error message.
C27_ExcerptsWhenOracleFails ==
    (/\ doc_pc = "answered"
     /\ doc_input.llm
     /\ doc_input.index
     /\ doc_input.relevant_docs /= <<>>
     /\ doc_input.reply.raised) =>
        doc_answer = answer_with_docs(FALSE, TRUE, doc_input.relevant_docs,
                                      doc_input.reply)

\* ---------------------------------------------------- dispatch after a rebuild
\* C28: once a rebuild of the index has completed (and none is running), a
\* document_qa dispatch through the controller answers from the rebuilt
\* index: when it goes on to the similarity search, the index its tool holds
\* in memory is the one the rebuild made, also when the tool had loaded an
\* older snapshot before.
C28_AnswersFromRebuiltIndex ==
    [][(/\ index_pc.reader = "idle"
        /\ index_pc'.reader = "search"
        /\ index_pc.builder = "idle"
        /\ builder_store /= NoIndex) => reader_store = builder_store]_vars

\* ------------------------------------------------------- what gets logged
\* C29: every record the controller appends to the log has a routing_decision
\* of the closed label set and a non-empty tool_used; a call that ends
\* through the outermost error boundary is not logged; so every key
\* get_routing_stats returns is one of the five labels.
C29_LoggedRecordsLabelled ==
    /\ \A d \in Days :
         \A i \in 1..Len(logs[d]) :
             logs[d][i].kind = "record" =>
                 /\ logs[d][i].rec.routing_decision \in valid_routes
                 /\ logs[d][i].rec.tool_used /= ""
    /\ \A r \in Reqs :
         result[r].path = "boundary" =>
             nlogged[r] = 0 /\ write_outcome[r] = "none" /\ log_data[r] = NoRecord
    /\ routing_stats_keys(logs) \subseteq valid_routes

\* C29 witness: a call whose routing oracle answered with text that is no
\* label and whose handler failed was logged, with the fallback's label and
\* the marked tool_used, and get_routing_stats has that label as its key.
C29_Witness ==
    \E r \in Reqs, d \in Days :
        /\ result[r].path = "workflow"
        /\ ~router_reply[r].raised
        /\ Lower(Strip(router_reply[r].content)) \notin valid_routes
        /\ handler_failed[r]
        /\ logs[d] = <<[kind |-> "record", rec |-> log_data[r]]>>
        /\ log_data[r].routing_decision = fallback_routing(asked[r])
        /\ log_data[r].tool_used = ToolLabel(node[r]) \o " (Error)"
        /\ routing_stats_keys(logs) = {log_data[r].routing_decision}

\* ------------------------------------------------------------ the daily files
\* C30: each record is stored in the daily file of its own calendar day: the
\* day of its timestamp is the day in the name of the file it was appended
\* to, also when midnight passes between the two clock reads of
\* log_interaction.
C30_RecordInFileOfItsDay ==
    \A d \in Days :
        \A i \in 1..Len(logs[d]) :
            logs[d][i].kind = "record" => logs[d][i].rec.timestamp = d

====
